---- MODULE Spec2Model ----
(***************************************************************************)
(* A model of the enchanted-sleeve (esl) Bitcask-style key/value store.    *)
(*                                                                         *)
(* The store (db.go) appends entries to an active data file, keeps an      *)
(* in-memory key directory, rotates ("archives") the active file and has   *)
(* a background compactor (db_compact.go) that merges data files.          *)
(*                                                                         *)
(* Bytes are modelled at the granularity of records: a file is a sequence  *)
(* of chunks, each chunk the image of one bytes() call, and every offset   *)
(* is the sum of the byte sizes of the chunks before it.  A byte string    *)
(* (a value) is a record [c, n]: c names its content and n is its length,  *)
(* so that a read of m bytes of it is the prefix [c, m].                   *)
(***************************************************************************)
EXTENDS Integers, Sequences, FiniteSets, TLC

(***************************************************************************)
(* Bounds of the model.                                                    *)
(***************************************************************************)
\* number of entries that Put and Delete may append in one behaviour
MaxWrites == 3
\* number of times the store is opened in one behaviour
MaxOpens == 2
\* number of compaction runs in one behaviour
MaxMerges == 1

(***************************************************************************)
(* Program constants.                                                      *)
(***************************************************************************)
\* entry.go:16 kvEntry_bytes_fixedBytes, memtable.go:89 kvEntry_fixedBytes
kvEntry_fixedBytes == 12
\* entry.go:20 kvEntry_bytes_keyOff
kvEntry_bytes_keyOff == 12
\* part_013:12 keydirFile_fixedSize = keydirMem_Size + 2
keydirFile_fixedSize == 14
\* db.go:239
maxKeySize == 512
\* db.go:240
maxValueSize == 65536
\* db.go:242 (100 MiB in the source; scaled so that one entry with the long
\* value fills a file, two entries with the short value of 29 bytes together
\* do not and two of 30 bytes together do)
maxDataFileSize == 30

\* the conversion uint16(x)
Uint16(x) == x % 65536
\* the conversion uint32(x): the low and the high 16 bits of x mod 2^32
Uint32(x) == (x % 65536) + 65536 * ((x \div 65536) % 65536)

(***************************************************************************)
(* Keys and values.                                                        *)
(***************************************************************************)
Keys == {"a", "bb"}

\* keys at the limit of the key size: 512 and 513 bytes long
LimitKeys == {"k512", "k513"}

KeyLen(k) ==
    IF k = "" THEN 0
    ELSE IF k = "a" THEN 1
    ELSE IF k = "bb" THEN 2
    ELSE IF k = "k512" THEN 512
    ELSE 513

\* a nil slice and an empty, non-nil slice
Nil == [c |-> "nil", n |-> 0]
Empty == [c |-> "", n |-> 0]

\* the values a caller passes to Put
Values == {[c |-> "x", n |-> 1], [c |-> "y", n |-> 18]}

\* values at the limit of the value size: 65535, 65536 and 65537 bytes long
LimitValues == {[c |-> "z", n |-> 65535], [c |-> "z", n |-> 65536], [c |-> "z", n |-> 65537]}

\* the first m bytes of byte string v (copy into a buffer of m bytes)
Prefix(v, m) == IF m = 0 THEN Empty ELSE [c |-> v.c, n |-> m]

\* the bytes that copy() takes from v: a nil slice contributes nothing
Bytes(v) == IF v.n = 0 THEN Empty ELSE v

Min(x, y) == IF x < y THEN x ELSE y

(***************************************************************************)
(* kvEntry (entry.go, memtable.go).  The CRC-32 of a byte string is        *)
(* modelled by the byte string itself (the tuple of the fields it covers), *)
(* so that two CRCs agree exactly when the covered bytes agree.            *)
(***************************************************************************)
\* entry.go:33 (*kvEntry).checksum: covers len(key)+len(value)+8 bytes
kvEntryChecksum(ts, keySize, valueSize, key, value) ==
    <<ts, keySize, valueSize, key, Bytes(value)>>

\* memtable.go:106 checksum(ent): covers 8+keySize+valueSize bytes
checksum(ent) ==
    <<ent.tsTimestamp, ent.keySize, ent.valueSize, ent.key,
      Prefix(ent.value, Min(ent.valueSize, ent.value.n))>>

\* entry.go:65 newEntry; time.Now() is drawn from the one-element set {0}
newEntry(key, value) ==
    [crc |-> kvEntryChecksum(0, Uint16(KeyLen(key)), Uint16(value.n), key, value),
     tsTimestamp |-> 0,
     keySize |-> Uint16(KeyLen(key)),
     valueSize |-> Uint16(value.n),
     key |-> key,
     value |-> value]

\* entry.go:48 / memtable.go:130 (*kvEntry).bytes: the chunk written to a
\* file, len(key)+len(value)+12 bytes long; a nil value writes no bytes
bytes(ent) == [ent EXCEPT !.value = Bytes(ent.value)]

\* number of bytes of a chunk of a data file
ChunkSize(ch) == kvEntry_fixedBytes + KeyLen(ch.key) + ch.value.n

\* memtable.go:143 (*kvEntry).tombstone
tombstone(ent) == ent.value = Nil

(***************************************************************************)
(* The file system.  A file name is [dir, id, ext, fmt]: the directory,    *)
(* the number printed in the base name, its extension and the format the   *)
(* number is printed with.  fs maps the names that exist to the file's     *)
(* content, a sequence of chunks.  "." is the working directory.           *)
(*                                                                         *)
(* An open handle keeps pointing at its file when the file is renamed or   *)
(* removed.  The only handle that lives longer than one operation is the   *)
(* store's active data file, so a "world" W = [fs, h] carries that handle  *)
(* h through every rename and remove: h = [kind, name, data] with kind     *)
(* "nil" (no handle), "file" (the file called name) or "orphan" (a file    *)
(* that has no name any more, whose content is data).                       *)
(***************************************************************************)
dataFileExt == ".esld"
hintFileExt == ".hint"
bakExt == ".bak"

NilHandle == [kind |-> "nil", name |-> <<>>, data |-> <<>>]
FileHandle(nm) == [kind |-> "file", name |-> nm, data |-> <<>>]
OrphanHandle(content) == [kind |-> "orphan", name |-> <<>>, data |-> content]

Exists(fs, nm) == nm \in DOMAIN fs

\* fs with the file nm holding content (created or replaced)
WithFile(fs, nm, content) ==
    [x \in (DOMAIN fs) \cup {nm} |-> IF x = nm THEN content ELSE fs[x]]

\* fs without the name nm
WithoutFile(fs, nm) == [x \in (DOMAIN fs) \ {nm} |-> fs[x]]

\* afero.Fs.Rename / os.Rename: fails when old does not exist, replaces new
Rename(W, old, new) ==
    IF ~Exists(W.fs, old) THEN [W |-> W, err |-> "ENOENT"]
    ELSE [W |-> [fs |-> WithFile(WithoutFile(W.fs, old), new, W.fs[old]),
                 h |-> IF W.h.kind = "file" /\ W.h.name = old
                          THEN FileHandle(new)
                       ELSE IF W.h.kind = "file" /\ W.h.name = new
                          THEN OrphanHandle(W.fs[new])
                       ELSE W.h],
          err |-> "nil"]

\* afero.Fs.Remove / os.Remove: fails when the file does not exist
Remove(W, nm) ==
    IF ~Exists(W.fs, nm) THEN [W |-> W, err |-> "ENOENT"]
    ELSE [W |-> [fs |-> WithoutFile(W.fs, nm),
                 h |-> IF W.h.kind = "file" /\ W.h.name = nm
                          THEN OrphanHandle(W.fs[nm])
                       ELSE W.h],
          err |-> "nil"]

\* the content behind a handle
HandleData(W) ==
    IF W.h.kind = "file" THEN W.fs[W.h.name]
    ELSE IF W.h.kind = "orphan" THEN W.h.data
    ELSE <<>>

\* (*os.File).Write through an O_APPEND handle: the chunk goes to the end
HandleAppend(W, ch) ==
    IF W.h.kind = "file"
      THEN [W EXCEPT !.fs = WithFile(W.fs, W.h.name, Append(W.fs[W.h.name], ch))]
      ELSE [W EXCEPT !.h = OrphanHandle(Append(W.h.data, ch))]

\* afero.Glob(fs, filepath.Join(path, "*" + ext))
Glob(fs, path, ext) == {nm \in DOMAIN fs : nm.dir = path /\ nm.ext = ext}

\* part_008:13 dataFilename / part_008:18 hintFilename: "%010d" + ext
\* joined to path (the helpers db_compact.go is written against)
dataFilename(path, fileId) ==
    [dir |-> path, id |-> fileId, ext |-> dataFileExt, fmt |-> "%010d"]
hintFilename(path, fileId) ==
    [dir |-> path, id |-> fileId, ext |-> hintFileExt, fmt |-> "%010d"]

\* db.go:373 dataFilename / db.go:377 hintFilename as db.go defines them:
\* path is not used, the name is relative to the working directory
dbDataFilename(path, fileId) ==
    [dir |-> ".", id |-> fileId, ext |-> dataFileExt, fmt |-> "%010d"]
dbHintFilename(path, fileId) ==
    [dir |-> ".", id |-> fileId, ext |-> hintFileExt, fmt |-> "%010d"]

\* db.go:335 the name readInactiveFile opens: fmt.Sprintf("%10d", fileId),
\* blank padded, without extension and without the store's path
inactiveFilename(fileId) ==
    [dir |-> ".", id |-> fileId, ext |-> "", fmt |-> "%10d"]

\* filename + ".bak" (part_008:138)
bakName(nm) == [nm EXCEPT !.ext = nm.ext \o bakExt]

\* part_008:27 fileIdFromFilename
fileIdFromFilename(nm) == Uint16(nm.id)

(***************************************************************************)
(* Offsets inside a data file.                                             *)
(***************************************************************************)
\* A file opened without O_TRUNC and written from offset 0 keeps the bytes
\* behind the written ones.  Where they start inside an old chunk, what is
\* left of that chunk is a junk chunk [junk |-> number of bytes].
IsJunk(ch) == "junk" \in DOMAIN ch
IsKv(ch) == "crc" \in DOMAIN ch

\* part_013:105 (*keydirFileEntry).bytes: 14 + keySize bytes
HintSize(rec) == keydirFile_fixedSize + rec.keySize

RecSize(ch) ==
    IF IsJunk(ch) THEN ch.junk
    ELSE IF IsKv(ch) THEN ChunkSize(ch)
    ELSE HintSize(ch)

RECURSIVE SizeOf(_)
SizeOf(content) ==
    IF content = <<>> THEN 0
    ELSE RecSize(Head(content)) + SizeOf(Tail(content))

\* what is left of old behind its first n bytes
RECURSIVE TailFrom(_, _)
TailFrom(old, n) ==
    IF old = <<>> \/ n <= 0 THEN old
    ELSE IF RecSize(Head(old)) <= n
      THEN TailFrom(Tail(old), n - RecSize(Head(old)))
    ELSE <<[junk |-> RecSize(Head(old)) - n]>> \o Tail(old)

\* the content of a file that held old after written was written from
\* offset 0 through a handle opened with O_CREATE|O_RDWR
Overwrite(old, written) == written \o TailFrom(old, SizeOf(written))

\* offset of the header of chunk i
EntryOff(content, i) == SizeOf(SubSeq(content, 1, i - 1))

\* offset of the value bytes of chunk i
ValueOff(content, i) ==
    IF IsKv(content[i])
      THEN EntryOff(content, i) + kvEntry_fixedBytes + KeyLen(content[i].key)
      ELSE -1

\* bytes that belong to no single value: what a read at a wrong offset gets
Garbage(n) == [c |-> "?", n |-> n]

\* (*os.File).ReadAt(buf, off) with len(buf) = n: an empty buffer reads
\* nothing and succeeds; a read past the end of the file fails with EOF
ReadAt(content, off, n) ==
    IF n = 0 THEN [err |-> "nil", val |-> Empty]
    ELSE IF off + n > SizeOf(content) THEN [err |-> "EOF", val |-> Nil]
    ELSE IF \E i \in 1..Len(content) :
                ValueOff(content, i) = off /\ content[i].value.n >= n
      THEN LET i == CHOOSE j \in 1..Len(content) :
                        ValueOff(content, j) = off /\ content[j].value.n >= n
           IN [err |-> "nil", val |-> Prefix(content[i].value, n)]
    ELSE [err |-> "nil", val |-> Garbage(n)]

(***************************************************************************)
(* readDataFile (db_compact.go:333): the sequential scan of a data file.   *)
(***************************************************************************)
\* the map update m[k] = v
MapSet(m, k, v) == [x \in (DOMAIN m) \cup {k} |-> IF x = k THEN v ELSE m[x]]

EmptyMap == [x \in {} |-> 0]

RECURSIVE readLoop(_, _, _, _, _, _)
readLoop(content, i, cur, fileId, entries, keydires) ==
    IF i > Len(content)
      THEN [err |-> "nil", kvs |-> entries, keydirs |-> keydires]
    ELSE IF ~IsKv(content[i])
      THEN [err |-> "ErrEntryCorrupted", kvs |-> <<>>, keydirs |-> EmptyMap]
    ELSE LET ch == content[i]
             \* make([]byte, valueSize) filled by ReadAt: valueSize bytes
             entry == [ch EXCEPT !.value = Prefix(ch.value, ch.valueSize)]
             keydir == [fileId |-> fileId,
                        valueSize |-> ch.valueSize,
                        entryOffset |-> Uint32(cur),
                        valueOffset |-> Uint32(cur + kvEntry_fixedBytes + ch.keySize)]
         IN IF ch.valueSize > ch.value.n /\ i = Len(content)
              THEN [err |-> "EOF", kvs |-> <<>>, keydirs |-> EmptyMap]
            ELSE IF checksum(entry) # entry.crc
              THEN [err |-> "ErrEntryCorrupted", kvs |-> <<>>, keydirs |-> EmptyMap]
            ELSE IF ch.valueSize # ch.value.n
              \* the scan goes on inside the value bytes: whatever it
              \* decodes there is not an entry that was written
              THEN [err |-> "ErrEntryCorrupted", kvs |-> <<>>, keydirs |-> EmptyMap]
            ELSE IF ch.keySize = 0
              \* db_compact.go:395 &entry.key[0] of an empty key: index out
              \* of range, a run-time panic
              THEN [err |-> "panic", kvs |-> <<>>, keydirs |-> EmptyMap]
            ELSE readLoop(content, i + 1, cur + ChunkSize(ch), fileId,
                          Append(entries, entry),
                          MapSet(keydires, ch.key, keydir))

readDataFile(fs, filename, fileId) ==
    IF ~Exists(fs, filename)
      THEN [err |-> "ENOENT", kvs |-> <<>>, keydirs |-> EmptyMap]
      ELSE readLoop(fs[filename], 1, 0, fileId, <<>>, EmptyMap)

(***************************************************************************)
(* Compaction (db_compact.go).  An I/O fault is [kind, at]: the at-th      *)
(* call of the named kind fails ("none": no call fails).                   *)
(***************************************************************************)
NoFault == [kind |-> "none", at |-> 0]

Hit(fault, kind, at) == fault.kind = kind /\ fault.at = at

\* the ids of a set of file names, largest first
\* (sort.Sort(sort.Reverse(sort.IntSlice(orderedFileIds))))
RECURSIVE SortDesc(_)
SortDesc(S) ==
    IF S = {} THEN <<>>
    ELSE LET m == CHOOSE x \in S : \A y \in S : y <= x
         IN <<m>> \o SortDesc(S \ {m})

\* db_compact.go:126-140: the selection over the entries of one file, in
\* the order readDataFile returns them
RECURSIVE selectLoop(_, _, _, _)
selectLoop(kvs, j, alive, tomb) ==
    IF j > Len(kvs) THEN [alive |-> alive, tomb |-> tomb]
    ELSE LET kv == kvs[j]
         IN IF kv.key \in tomb THEN selectLoop(kvs, j + 1, alive, tomb)
            ELSE IF kv.key \in DOMAIN alive THEN selectLoop(kvs, j + 1, alive, tomb)
            ELSE selectLoop(kvs, j + 1,
                            MapSet(alive, kv.key, kv),
                            IF tombstone(kv) THEN tomb \cup {kv.key} ELSE tomb)

\* part_008:136 backupFile: rename filename to filename.bak
backupFile(W, filename) == Rename(W, filename, bakName(filename))

\* the clean function as its comment describes it ("the clean function
\* will remove filename"): not what the code does
cleanFn_filename(W, filename) == Remove(W, filename).W

\* the restoreFn and the cleanFn that backupFile returns
restoreFn(W, filename) == Rename(W, bakName(filename), filename).W
cleanFn(W, filename) == Remove(W, bakName(filename)).W

RECURSIVE restoreAll(_, _)
restoreAll(W, names) ==
    IF names = <<>> THEN W
    ELSE restoreAll(restoreFn(W, Head(names)), Tail(names))

RECURSIVE cleanAll(_, _)
cleanAll(W, names) ==
    IF names = <<>> THEN W
    ELSE cleanAll(cleanFn(W, Head(names)), Tail(names))

\* db_compact.go:182-185: the deferred removal of every file that open()
\* was called for
RECURSIVE removeOutputs(_, _, _)
removeOutputs(W, path, fileIds) ==
    IF fileIds = <<>> THEN W
    ELSE removeOutputs(
           Remove(Remove(W, dataFilename(path, Head(fileIds))).W,
                  hintFilename(path, Head(fileIds))).W,
           path, Tail(fileIds))

\* fs.OpenFile(name, O_CREATE|O_RDWR): the file exists afterwards, with the
\* content it had
Created(W, nm) ==
    IF Exists(W.fs, nm) THEN W ELSE [W EXCEPT !.fs = WithFile(W.fs, nm, <<>>)]

\* db_compact.go:188 open(fileId) inside writeMergeFileAndHint.  st is the
\* state of the writer: W, fileIds, the current id, entryOff, and for the
\* current data and hint file the content at open and the chunks written.
openOutput(st, path, fileId, fault) ==
    LET n == Len(st.fileIds) + 1
        ids == Append(st.fileIds, fileId)
        dn == dataFilename(path, fileId)
        hn == hintFilename(path, fileId)
        W1 == Created(st.W, dn)
        W2 == Created(W1, hn)
    IN IF Hit(fault, "openData", n)
         THEN [st EXCEPT !.fileIds = ids, !.err = "openData"]
       ELSE IF Hit(fault, "openHint", n)
         THEN [st EXCEPT !.fileIds = ids, !.W = W1, !.err = "openHint"]
       ELSE [st EXCEPT !.fileIds = ids, !.W = W2, !.id = fileId,
                       !.entryOff = 0,
                       !.oldData = W2.fs[dn], !.oldHint = W2.fs[hn],
                       !.wData = <<>>, !.wHint = <<>>]

\* db_compact.go:230-266: the loop over the alive entries, entries being
\* the order in which the map iteration yields them
RECURSIVE writeLoop(_, _, _, _, _, _)
writeLoop(st, path, entries, j, oversizeAt, fault) ==
    IF st.err # "nil" \/ j > Len(entries) THEN st
    ELSE LET entry == entries[j]
             dn == dataFilename(path, st.id)
             hn == hintFilename(path, st.id)
             wData == Append(st.wData, bytes(entry))
             W1 == [st.W EXCEPT !.fs = WithFile(st.W.fs, dn, Overwrite(st.oldData, wData))]
             valueOff == Uint32(st.entryOff + kvEntry_fixedBytes + entry.keySize)
             keydir == [fileId |-> st.id,
                        valueSize |-> entry.valueSize,
                        valueOffset |-> valueOff,
                        entryOffset |-> st.entryOff,
                        keySize |-> entry.keySize,
                        key |-> entry.key]
             wHint == Append(st.wHint, keydir)
             W2 == [W1 EXCEPT !.fs = WithFile(W1.fs, hn, Overwrite(st.oldHint, wHint))]
             st2 == [st EXCEPT !.W = W2, !.wData = wData, !.wHint = wHint]
         IN IF Hit(fault, "writeData", j)
              THEN [st EXCEPT !.err = "writeData"]
            ELSE IF Hit(fault, "writeHint", j)
              THEN [st EXCEPT !.W = W1, !.err = "writeHint"]
            ELSE IF valueOff >= oversizeAt
              THEN writeLoop(openOutput(st2, path, Uint16(st.id + 65535), fault),
                             path, entries, j + 1, oversizeAt, fault)
            ELSE writeLoop([st2 EXCEPT !.entryOff = Uint32(st.entryOff + RecSize(bytes(entry)))],
                           path, entries, j + 1, oversizeAt, fault)

\* db_compact.go:172 writeMergeFileAndHint; oversize(off) is off >= oversizeAt
writeMergeFileAndHint(W, path, maxFileId, entries, oversizeAt, fault) ==
    LET st0 == [W |-> W, fileIds |-> <<>>, id |-> maxFileId, entryOff |-> 0,
                oldData |-> <<>>, oldHint |-> <<>>, wData |-> <<>>, wHint |-> <<>>,
                err |-> "nil"]
        st == writeLoop(openOutput(st0, path, maxFileId, fault),
                        path, entries, 1, oversizeAt, fault)
    IN IF st.err = "nil"
         THEN [W |-> st.W, err |-> "nil", fileIds |-> st.fileIds]
         ELSE [W |-> removeOutputs(st.W, path, st.fileIds), err |-> st.err,
               fileIds |-> st.fileIds]

\* the alive map as the sequence of its entries in the order of keys
RECURSIVE InOrder(_, _)
InOrder(alive, order) ==
    IF order = <<>> THEN <<>>
    ELSE IF Head(order) \in DOMAIN alive
      THEN <<alive[Head(order)]>> \o InOrder(alive, Tail(order))
    ELSE InOrder(alive, Tail(order))

\* db_compact.go:111-141: the loop over the files, newest first
RECURSIVE mergeLoop(_, _, _, _, _, _, _, _)
mergeLoop(W, path, ids, i, alive, tomb, backed, fault) ==
    IF i > Len(ids)
      THEN [W |-> W, err |-> "nil", alive |-> alive, backed |-> backed]
    ELSE LET filename == dataFilename(path, Uint16(ids[i]))
             rd == readDataFile(W.fs, filename, Uint16(ids[i]))
             bk == backupFile(W, filename)
             sel == selectLoop(rd.kvs, 1, alive, tomb)
         IN IF Hit(fault, "read", i)
              THEN [W |-> W, err |-> "read", alive |-> alive, backed |-> backed]
            ELSE IF rd.err # "nil"
              THEN [W |-> W, err |-> rd.err, alive |-> alive, backed |-> backed]
            ELSE IF Hit(fault, "backup", i)
              THEN [W |-> W, err |-> "backup", alive |-> alive, backed |-> backed]
            ELSE IF bk.err # "nil"
              THEN [W |-> W, err |-> bk.err, alive |-> alive, backed |-> backed]
            ELSE mergeLoop(bk.W, path, ids, i + 1, sel.alive, sel.tomb,
                           Append(backed, filename), fault)

\* the data files mergeFiles works on: all of them, without the first of
\* the descending order when that is the active file (db_compact.go:102)
mergeInputIds(fs, path, activeFileId) ==
    LET all == SortDesc({fileIdFromFilename(nm) : nm \in Glob(fs, path, dataFileExt)})
    IN IF all # <<>> /\ Uint16(all[1]) = activeFileId THEN Tail(all) ELSE all

\* db_compact.go:81 mergeFiles.  order is the order in which the iteration
\* over the alive map yields the keys.  The result is [W, err] together
\* with the ids of the files it read (inputs) and of the files it opened
\* for writing (outputs); err = "panic" is the index-out-of-range panic of
\* orderedFileIds[0] on an empty list.
mergeFiles(W, path, activeFileId, oversizeAt, order, fault) ==
    IF Glob(W.fs, path, dataFileExt) = {}
      THEN [W |-> W, err |-> "panic", inputs |-> <<>>, outputs |-> <<>>]
    ELSE LET ids == mergeInputIds(W.fs, path, activeFileId)
             lp == mergeLoop(W, path, ids, 1, EmptyMap, {}, <<>>, fault)
             wr == writeMergeFileAndHint(lp.W, path, Uint16(activeFileId + 65535),
                                         InOrder(lp.alive, order), oversizeAt, fault)
         IN IF lp.err # "nil"
              THEN [W |-> lp.W, err |-> lp.err, inputs |-> ids, outputs |-> <<>>]
            ELSE IF wr.err = "nil"
              THEN [W |-> cleanAll(wr.W, lp.backed), err |-> "nil",
                    inputs |-> ids, outputs |-> wr.fileIds]
            ELSE [W |-> restoreAll(wr.W, lp.backed), err |-> wr.err,
                  inputs |-> ids, outputs |-> wr.fileIds]

(***************************************************************************)
(* The store (db.go).                                                      *)
(***************************************************************************)
\* the directories a store is opened on: the working directory and another
Paths == {".", "data"}

\* db_option.go:42 options.compactThreshold (10 by default; scaled)
compactThreshold == 2

VARIABLES
    path,               \* DB.path
    status,             \* "closed", "open" (a DB is in use) or "crashed"
    fs,                 \* the file system
    activeDataFile,     \* DB.activeDataFile, a handle
    activeFileId,       \* DB.activeFileId
    activeDataFileOff,  \* DB.activeDataFileOff
    keyDir,             \* DB.keyDir.hashmap
    inArchived,         \* DB.inArchived
    inCompaction,       \* DB.inCompaction
    compactCommand,     \* number of commands in the channel DB.compactCommand
    last,               \* history: for every key its last successful write
    ret,                \* what the last operation returned
    cnt,                \* history: numbers of writes, opens, merges (runs of
                        \* mergeFiles), merges that returned nil (merged) and
                        \* calls of merge (calls)
    thr,                \* for every thread inside an operation, where it is
    wal,                \* the write-ahead log: the *WAL of the process
    walRoot,            \* the files of the directory Config.Root
    walRet,             \* what the last operation of the log returned
    walLog,             \* history: the successful Writes of the log
    walCnt              \* history: numbers of operations of the log

\* the write-ahead log (wal/wal.go), which the store does not use
walVars == <<wal, walRoot, walRet, walLog, walCnt>>

vars == <<path, status, fs, activeDataFile, activeFileId, activeDataFileOff,
          keyDir, inArchived, inCompaction, compactCommand, last, ret, cnt, thr,
          wal, walRoot, walRet, walLog, walCnt>>

dbVars == <<activeDataFile, activeFileId, activeDataFileOff, keyDir,
            inArchived, inCompaction>>

World == [fs |-> fs, h |-> activeDataFile]

\* the threads that may be inside Put (writers) and inside merge (mergers);
\* Spec and SpecFault run every operation as one step and leave them idle
Writers == {"w1", "w2"}
Mergers == {"c1", "c2"}
Threads == Writers \cup Mergers

\* no log: NewWAL was not called
NilWAL == [state |-> "none"]

\* the record of a result of the log: the operation, the offset and the
\* entry it was given or returned, and its error
WalRet(op, offset, entry, err) ==
    [op |-> op, offset |-> offset, entry |-> entry, err |-> err]

\* a thread outside every operation; inside one, pc is its position and
\* key, ent, keydir, off are the operation's local variables
Idle == [pc |-> "idle", key |-> "", ent |-> <<>>, keydir |-> <<>>, off |-> 0]

\* the record of an operation's result (for Put and Delete, val is the
\* value that was passed): keys is what ListKeys returned,
\* inputs and outputs are the file ids a compaction read and wrote
Ret(op, key, val, err) ==
    [op |-> op, key |-> key, val |-> val, err |-> err, keys |-> {},
     inputs |-> <<>>, outputs |-> <<>>]

\* last[k]: the kind of the last successful write of k ("none", "put",
\* "del"), the value of a put, and for a delete whether k had been put
\* before with no put since (live)
NoWrite == [kind |-> "none", val |-> Nil, live |-> FALSE]

\* db.go:152 openDataFile / db.go:164 openHintFile: O_CREATE|O_APPEND|O_RDWR
\* and the size of the file as the offset
openDataFile(W, p, fileId) ==
    LET W1 == Created(W, dbDataFilename(p, fileId))
    IN [W |-> [W1 EXCEPT !.h = FileHandle(dbDataFilename(p, fileId))],
        off |-> Uint32(SizeOf(W1.fs[dbDataFilename(p, fileId)]))]

openHintFile(W, p, fileId) == Created(W, dbHintFilename(p, fileId))

\* db.go:184 restoreKeyDir: both branches only print and return nil
restoreKeyDir(f, p, kd) ==
    IF Glob(f, p, hintFileExt) # {} THEN kd
    ELSE IF Glob(f, p, dataFileExt) = {} THEN kd
    ELSE kd

\* db.go:256 buildKeyDir: entryOffset is not set and stays 0
buildKeyDir(e) ==
    [fileId |-> activeFileId,
     valueSize |-> e.valueSize,
     tsTimestamp |-> e.tsTimestamp,
     entryOffset |-> 0,
     valueOffset |-> Uint32(activeDataFileOff + kvEntry_bytes_keyOff + e.keySize)]

\* db.go:18 (*keyDirIndex).get
HasKey(k) == k \in DOMAIN keyDir

Init ==
    /\ path \in Paths
    /\ status = "closed"
    /\ fs = EmptyMap
    /\ activeDataFile = NilHandle
    /\ activeFileId = 0
    /\ activeDataFileOff = 0
    /\ keyDir = EmptyMap
    /\ inArchived = FALSE
    /\ inCompaction = FALSE
    /\ compactCommand = 0
    /\ last = [k \in Keys \cup LimitKeys |-> NoWrite]
    /\ ret = Ret("none", "", Nil, "nil")
    /\ cnt = [writes |-> 0, opens |-> 0, merges |-> 0, merged |-> 0, calls |-> 0]
    /\ thr = [t \in Threads |-> Idle]
    /\ wal = NilWAL
    /\ walRoot = EmptyMap
    /\ walRet = WalRet("none", 0, <<>>, "nil")
    /\ walLog = <<>>
    /\ walCnt = [writes |-> 0, opens |-> 0, truncates |-> 0]

\* db.go:55 Open and db.go:85 newDB
Open ==
    /\ status = "closed"
    /\ cnt.opens < MaxOpens
    /\ LET matched == Glob(fs, path, dataFileExt)
           init == matched = {}
           id0 == Uint16(Cardinality(matched))
           od == openDataFile([fs |-> fs, h |-> NilHandle], path, id0)
           W2 == openHintFile(od.W, path, id0)
       IN /\ fs' = W2.fs
          /\ activeDataFile' = W2.h
          /\ activeDataFileOff' = od.off
          /\ activeFileId' = IF init THEN id0 ELSE Uint16(id0 + 65535)
          /\ keyDir' = IF init THEN EmptyMap ELSE restoreKeyDir(fs, path, EmptyMap)
    /\ status' = "open"
    /\ inArchived' = FALSE
    /\ inCompaction' = FALSE
    /\ compactCommand' = 0
    /\ ret' = Ret("Open", "", Nil, "nil")
    /\ cnt' = [cnt EXCEPT !.opens = @ + 1]
    /\ UNCHANGED <<path, walVars, thr, last>>

\* db.go:125 Close: the handles are synced and closed, nothing is written.
\* The caller drops the DB afterwards, so its fields are given the values
\* of Init; Open builds every field anew.
Close ==
    /\ status = "open"
    /\ status' = "closed"
    /\ activeDataFile' = NilHandle
    /\ activeFileId' = 0
    /\ activeDataFileOff' = 0
    /\ keyDir' = EmptyMap
    /\ inArchived' = FALSE
    /\ inCompaction' = FALSE
    /\ compactCommand' = 0
    /\ ret' = Ret("Close", "", Nil, "nil")
    /\ UNCHANGED <<path, walVars, thr, fs, last, cnt>>

\* the history after a Delete of key that returned nil
Deleted(key) ==
    [kind |-> "del", val |-> Nil,
     live |-> IF last[key].kind = "del" THEN last[key].live
              ELSE last[key].kind = "put"]

\* db.go:211 archive, entered with inArchived = FALSE
archive(W) ==
    LET newId == Uint16(activeFileId + 1)
        od == openDataFile([W EXCEPT !.h = NilHandle], path, newId)
    IN [W |-> openHintFile(od.W, path, newId), id |-> newId, off |-> od.off]

\* db.go:288 write: append, update the key directory, step the offset and
\* archive when the file is full
write(key, e, keydir, op) ==
    IF activeDataFile.kind = "nil"
      THEN /\ ret' = Ret(op, key, e.value, "ErrInvalid")
           /\ UNCHANGED <<fs, dbVars, last, cnt>>
    ELSE LET W1 == HandleAppend(World, bytes(e))
             off1 == Uint32(activeDataFileOff + RecSize(bytes(e)))
             ar == archive(W1)
         IN /\ keyDir' = MapSet(keyDir, key, keydir)
            /\ IF off1 >= maxDataFileSize
                 THEN /\ fs' = ar.W.fs
                      /\ activeDataFile' = ar.W.h
                      /\ activeFileId' = ar.id
                      /\ activeDataFileOff' = ar.off
                 ELSE /\ fs' = W1.fs
                      /\ activeDataFile' = W1.h
                      /\ activeFileId' = activeFileId
                      /\ activeDataFileOff' = off1
            /\ ret' = Ret(op, key, e.value, "nil")
            /\ last' = [last EXCEPT ![key] =
                          IF op = "Put"
                            THEN [kind |-> "put", val |-> e.value, live |-> TRUE]
                            ELSE Deleted(key)]
            /\ cnt' = [cnt EXCEPT !.writes = @ + 1]
            /\ UNCHANGED <<inArchived, inCompaction>>

\* db.go:245 Put
Put(key, value) ==
    /\ status = "open"
    /\ ~inArchived
    /\ cnt.writes < MaxWrites
    /\ IF KeyLen(key) > maxKeySize \/ value.n > maxValueSize
         THEN /\ ret' = Ret("Put", key, value, "ErrKeyOrValueTooLong")
              /\ UNCHANGED <<fs, dbVars, last, cnt>>
         ELSE write(key, newEntry(key, value), buildKeyDir(newEntry(key, value)), "Put")
    /\ UNCHANGED <<path, walVars, thr, status, compactCommand>>

\* db.go:276 Delete
Delete(key) ==
    /\ status = "open"
    /\ ~inArchived
    /\ IF HasKey(key)
         THEN /\ ret' = Ret("Delete", key, Nil, "nil")
              /\ last' = [last EXCEPT ![key] = Deleted(key)]
              /\ UNCHANGED <<fs, dbVars, cnt>>
         ELSE /\ cnt.writes < MaxWrites
              /\ write(key, newEntry(key, Nil), buildKeyDir(newEntry(key, Nil)), "Delete")
    /\ UNCHANGED <<path, walVars, thr, status, compactCommand>>

\* db.go:334 readInactiveFile
readInactiveFile(n, clue) ==
    IF ~Exists(fs, inactiveFilename(clue.fileId))
      THEN [err |-> "ENOENT", val |-> Nil]
      ELSE ReadAt(fs[inactiveFilename(clue.fileId)], clue.valueOffset, n)

\* db.go:311 Get as a function of the state: [err, val]
GetResult(key) ==
    IF ~HasKey(key) THEN [err |-> "ErrKeyNotFound", val |-> Nil]
    ELSE LET clue == keyDir[key]
             rd == IF clue.fileId = activeFileId
                     THEN IF activeDataFile.kind = "nil"
                            THEN [err |-> "ErrInvalid", val |-> Nil]
                            ELSE ReadAt(HandleData(World), clue.valueOffset, clue.valueSize)
                     ELSE readInactiveFile(clue.valueSize, clue)
         IN IF rd.err # "nil" THEN [err |-> rd.err, val |-> Nil] ELSE rd

Get(key) ==
    /\ status = "open"
    /\ ret' = Ret("Get", key, GetResult(key).val, GetResult(key).err)
    /\ UNCHANGED <<path, walVars, thr, status, fs, dbVars, compactCommand, last, cnt>>

\* db.go:350 ListKeys
ListKeys ==
    /\ status = "open"
    /\ ret' = [Ret("ListKeys", "", Nil, "nil") EXCEPT !.keys = DOMAIN keyDir]
    /\ UNCHANGED <<path, walVars, thr, status, fs, dbVars, compactCommand, last, cnt>>

\* db.go:360 Merge: the non-blocking send on the one-slot channel
Merge ==
    /\ status = "open"
    /\ compactCommand' = 1
    /\ ret' = Ret("Merge", "", Nil, "nil")
    /\ UNCHANGED <<path, walVars, thr, status, fs, dbVars, last, cnt>>

\* part_008:61 takeDBPathSnap, the part needCompact reads
takeDBPathSnap(f, p) ==
    [dataFiles |-> Glob(f, p, dataFileExt), hintFiles |-> Glob(f, p, hintFileExt)]

\* db_compact.go:19 needCompact
needCompact ==
    Cardinality(takeDBPathSnap(fs, path).dataFiles) - 1 >= compactThreshold

\* db_compact.go:38 the ticker case of startCompactRoutine
Tick ==
    /\ status = "open"
    /\ compactCommand' = IF needCompact THEN 1 ELSE compactCommand
    /\ UNCHANGED <<path, walVars, thr, status, fs, dbVars, last, ret, cnt>>

\* db_compact.go:46 the command case of startCompactRoutine with
\* db_compact.go:58 merge.  A panic of mergeFiles ends the process.
Compact(order, fault) ==
    /\ status = "open"
    /\ compactCommand = 1
    /\ cnt.merges < MaxMerges
    /\ ~inCompaction
    /\ \E r \in {mergeFiles(World, path, activeFileId, maxDataFileSize, order, fault)} :
          /\ fs' = r.W.fs
          /\ activeDataFile' = r.W.h
          /\ status' = IF r.err = "panic" THEN "crashed" ELSE "open"
          /\ ret' = [Ret("merge", "", Nil, r.err) EXCEPT !.inputs = r.inputs,
                                                         !.outputs = r.outputs]
          /\ cnt' = [cnt EXCEPT !.merges = @ + 1,
                                !.merged = IF r.err = "nil" THEN @ + 1 ELSE @]
    /\ compactCommand' = 0
    /\ inCompaction' = FALSE
    /\ UNCHANGED <<path, walVars, thr, activeFileId, activeDataFileOff, keyDir, inArchived, last>>

\* db_compact.go:46 the command case once more, after MaxMerges runs, in a
\* store opened with WithMaxFileBytes(maxFileBytes) (db_option.go:67)
CompactTwice(order, maxFileBytes) ==
    /\ status = "open"
    /\ compactCommand = 1
    /\ cnt.merges < MaxMerges + 1
    /\ ~inCompaction
    /\ \E r \in {mergeFiles(World, path, activeFileId, maxFileBytes, order, NoFault)} :
          /\ fs' = r.W.fs
          /\ activeDataFile' = r.W.h
          /\ status' = IF r.err = "panic" THEN "crashed" ELSE "open"
          /\ ret' = [Ret("merge", "", Nil, r.err) EXCEPT !.inputs = r.inputs,
                                                         !.outputs = r.outputs]
          /\ cnt' = [cnt EXCEPT !.merges = @ + 1,
                                !.merged = IF r.err = "nil" THEN @ + 1 ELSE @]
    /\ compactCommand' = 0
    /\ inCompaction' = FALSE
    /\ UNCHANGED <<path, walVars, thr, activeFileId, activeDataFileOff, keyDir, inArchived, last>>

Orders == {<<"a", "bb">>, <<"bb", "a">>}

Faults ==
    {NoFault}
    \cup {[kind |-> k, at |-> i] : k \in {"read", "backup"}, i \in 1..2}
    \cup {[kind |-> k, at |-> i] : k \in {"openData", "openHint", "writeData", "writeHint"},
                                   i \in 1..2}

Next ==
    \/ Open
    \/ Close
    \/ \E k \in Keys, v \in Values : Put(k, v)
    \/ \E k \in Keys : Delete(k)
    \/ \E k \in Keys : Get(k)
    \/ ListKeys
    \/ Merge
    \/ Tick
    \/ \E o \in Orders : Compact(o, NoFault)

Spec == Init /\ [][Next]_vars

\* the store with I/O faults in the compactor
NextFault ==
    \/ Open
    \/ \E k \in Keys, v \in Values : Put(k, v)
    \/ \E k \in Keys : Delete(k)
    \/ Merge
    \/ \E o \in Orders, f \in Faults : Compact(o, f)

SpecFault == Init /\ [][NextFault]_vars

(***************************************************************************)
(* Properties of the key-value operations.                                 *)
(***************************************************************************)
\* the store was opened once and no compaction has run: what happened so
\* far is Open, Put, Delete, Get, ListKeys and rotations
OneSession == cnt.opens = 1 /\ cnt.merges = 0

\* C1: read-your-writes.  In one session without compaction, a Get of a
\* key whose most recent write is a successful Put(K, V) returns V and no
\* error.
C1_ReadYourWrites ==
    (ret.op = "Get" /\ OneSession /\ last[ret.key].kind = "put")
        => (ret.err = "nil" /\ ret.val = last[ret.key].val)

\* C2: after Delete(K) of a key that had a live value returned nil, and
\* with no Put(K, .) since, Get(K) returns ErrKeyNotFound and no value.
C2_GetAfterDelete ==
    (ret.op = "Get" /\ OneSession
       /\ last[ret.key].kind = "del" /\ last[ret.key].live)
        => (ret.err = "ErrKeyNotFound" /\ ret.val = Nil)

\* a step of Delete(k) (Tick is the one other step that keeps ret)
DeleteStep(k) ==
    /\ ret'.op = "Delete" /\ ret'.key = k /\ ret'.err = "nil"
    /\ compactCommand' = compactCommand

\* the descriptor of k is that of a live value
LiveDescriptor(k) == HasKey(k) /\ keyDir[k].valueSize # 0

\* C3: Delete(K) on a key that is absent from the key directory or already
\* tombstoned changes neither the files, the active offset nor the key
\* directory; Delete(K) on a live key appends exactly one tombstone to the
\* active file and leaves K's descriptor with valueSize = 0.
C3_DeleteFrame ==
    [][\A k \in Keys :
         DeleteStep(k) =>
           IF LiveDescriptor(k)
             THEN /\ HasKey(k)' /\ keyDir'[k].valueSize = 0
                  /\ activeDataFile.kind = "file" =>
                       fs'[activeDataFile.name] =
                         Append(fs[activeDataFile.name], bytes(newEntry(k, Nil)))
             ELSE UNCHANGED <<fs, activeDataFile, activeDataFileOff, keyDir>>]_vars

\* C4: ListKeys returns exactly the keys whose most recent write is a Put.
C4_ListKeysLive ==
    (ret.op = "ListKeys" /\ OneSession)
        => ret.keys = {k \in Keys : last[k].kind = "put"}

\* C5: persistence round trip.  When the store has been closed and opened
\* again on the same directory, a Get(K) on the reopened store returns the
\* last value put for every key whose last write was a Put and
\* ErrKeyNotFound for every key whose last write was a Delete.
C5_RoundTrip ==
    (ret.op = "Open" /\ cnt.opens >= 2)
        => \A k \in Keys :
             /\ last[k].kind = "put"
                  => GetResult(k) = [err |-> "nil", val |-> last[k].val]
             /\ last[k].kind = "del" => GetResult(k).err = "ErrKeyNotFound"

\* C6: rotation keeps every live key readable.  For a live key whose
\* descriptor points into a data file that is no longer the active one, the
\* file Get opens for that file id exists and Get returns the last value.
C6_RotationReadable ==
    (status = "open" /\ OneSession)
        => \A k \in Keys :
             (last[k].kind = "put" /\ HasKey(k) /\ keyDir[k].fileId # activeFileId)
               => /\ Exists(fs, inactiveFilename(keyDir[k].fileId))
                  /\ GetResult(k) = [err |-> "nil", val |-> last[k].val]

(***************************************************************************)
(* Properties of the compactor.                                            *)
(***************************************************************************)
\* a step in which the compaction routine ran mergeFiles
MergeStep == ret'.op = "merge" /\ cnt'.merges = cnt.merges + 1

\* the entries of key k in a data file, in the order of the file
EntriesOf(content, k) == SelectSeq(content, LAMBDA ch : IsKv(ch) /\ ch.key = k)

\* the records of key k in a hint file
HintsOf(content, k) ==
    SelectSeq(content, LAMBDA ch : ~IsKv(ch) /\ ~IsJunk(ch) /\ ch.key = k)

\* the most recent entry of k among the data files ids (newest file
\* first) of file system f, as a sequence of length one, or <<>>
RECURSIVE NewestEntry(_, _, _, _)
NewestEntry(f, p, ids, k) ==
    IF ids = <<>> THEN <<>>
    ELSE LET es == IF Exists(f, dataFilename(p, Head(ids)))
                     THEN EntriesOf(f[dataFilename(p, Head(ids))], k)
                     ELSE <<>>
         IN IF es # <<>> THEN <<es[Len(es)]>>
            ELSE NewestEntry(f, p, Tail(ids), k)

\* every entry of k in the data files ids of f, and every hint record
RECURSIVE OutputEntries(_, _, _, _)
OutputEntries(f, p, ids, k) ==
    IF ids = <<>> THEN <<>>
    ELSE (IF Exists(f, dataFilename(p, Head(ids)))
            THEN EntriesOf(f[dataFilename(p, Head(ids))], k)
            ELSE <<>>)
         \o OutputEntries(f, p, Tail(ids), k)

RECURSIVE OutputHints(_, _, _, _)
OutputHints(f, p, ids, k) ==
    IF ids = <<>> THEN <<>>
    ELSE (IF Exists(f, hintFilename(p, Head(ids)))
            THEN HintsOf(f[hintFilename(p, Head(ids))], k)
            ELSE <<>>)
         \o OutputHints(f, p, Tail(ids), k)

\* C7: compaction keeps the newest version.  After a successful merge, for
\* every key whose most recent entry among the merged files is a Put with
\* value V, the output holds exactly one entry of the key, with value V.
C7_KeepsNewest ==
    [][(MergeStep /\ ret'.err = "nil") =>
         \A k \in Keys :
           LET nw == NewestEntry(fs, path, ret'.inputs, k)
               out == OutputEntries(fs', path, ret'.outputs, k)
           IN (nw # <<>> /\ nw[1].valueSize # 0)
                => (Len(out) = 1 /\ out[1].value = nw[1].value)]_vars

\* C8: compaction keeps no deleted key.  After a successful merge, for
\* every key whose most recent entry among the merged files is a
\* tombstone, the output data and hint files hold no entry of the key.
C8_DropsDeleted ==
    [][(MergeStep /\ ret'.err = "nil") =>
         \A k \in Keys :
           LET nw == NewestEntry(fs, path, ret'.inputs, k)
           IN (nw # <<>> /\ nw[1].valueSize = 0)
                => /\ OutputEntries(fs', path, ret'.outputs, k) = <<>>
                   /\ OutputHints(fs', path, ret'.outputs, k) = <<>>]_vars

\* C9: directory validity.  In a store opened once, for every key whose
\* last write is a Put and whose descriptor is not a tombstone, the data
\* file of the descriptor's file id exists, the entry's range lies inside
\* it, and valueSize bytes at valueOffset are the last value put.
C9_DirectoryValid ==
    (status = "open" /\ cnt.opens = 1)
        => \A k \in Keys :
             (last[k].kind = "put" /\ LiveDescriptor(k))
               => LET d == keyDir[k]
                      nm == dbDataFilename(path, d.fileId)
                  IN /\ Exists(fs, nm)
                     /\ d.entryOffset + kvEntry_fixedBytes + KeyLen(k) + d.valueSize
                          <= SizeOf(fs[nm])
                     /\ ReadAt(fs[nm], d.valueOffset, d.valueSize)
                          = [err |-> "nil", val |-> last[k].val]

\* C10: a failed compaction is harmless.  When mergeFiles returns an
\* error, every data file it worked on exists under its name with the
\* content it had, no .bak file is left and no file is left that did not
\* exist before.
C10_FailedMergeHarmless ==
    [][(MergeStep /\ ret'.err \notin {"nil", "panic"}) =>
         /\ \A i \in 1..Len(ret'.inputs) :
              LET nm == dataFilename(path, ret'.inputs[i])
              IN Exists(fs', nm) /\ fs'[nm] = fs[nm]
         /\ \A nm \in DOMAIN fs' : nm.ext \in {dataFileExt, hintFileExt}
         /\ DOMAIN fs' \subseteq DOMAIN fs]_vars

(***************************************************************************)
(* Concurrent writers (db.go:245-309).  Put is a sequence of steps of the  *)
(* calling thread: no lock is held between buildKeyDir, the Write to the   *)
(* active file, keyDir.set (which takes the key directory's own lock) and  *)
(* the update of activeDataFileOff, an unsynchronised load and store.      *)
(* Every writer runs one Put.  Get and archive are single steps.           *)
(***************************************************************************)
\* db.go:245-252 Put up to the call of write: the size check, newEntry and
\* buildKeyDir, which reads activeFileId and activeDataFileOff
PutBuild(t, key, value) ==
    /\ status = "open"
    /\ thr[t].pc = "idle"
    /\ KeyLen(key) <= maxKeySize /\ value.n <= maxValueSize
    /\ thr' = [thr EXCEPT ![t] = [pc |-> "built", key |-> key,
                                  ent |-> newEntry(key, value),
                                  keydir |-> buildKeyDir(newEntry(key, value)),
                                  off |-> 0]]
    /\ UNCHANGED <<path, walVars, status, fs, dbVars, compactCommand, last, ret, cnt>>

\* db.go:289-297 write: the wait for inArchived and activeDataFile.Write
PutWrite(t) ==
    /\ thr[t].pc = "built"
    /\ ~inArchived
    /\ activeDataFile.kind # "nil"
    /\ LET W1 == HandleAppend(World, bytes(thr[t].ent))
       IN /\ fs' = W1.fs
          /\ activeDataFile' = W1.h
    /\ thr' = [thr EXCEPT ![t].pc = "written"]
    /\ UNCHANGED <<path, walVars, status, activeFileId, activeDataFileOff, keyDir,
                   inArchived, inCompaction, compactCommand, last, ret, cnt>>

\* db.go:299 db.keyDir.set(key, keydir)
PutSet(t) ==
    /\ thr[t].pc = "written"
    /\ keyDir' = MapSet(keyDir, thr[t].key, thr[t].keydir)
    /\ thr' = [thr EXCEPT ![t].pc = "set"]
    /\ UNCHANGED <<path, walVars, status, fs, activeDataFile, activeFileId, activeDataFileOff,
                   inArchived, inCompaction, compactCommand, last, ret, cnt>>

\* db.go:300 db.activeDataFileOff += uint32(n): the load
PutOffLoad(t) ==
    /\ thr[t].pc = "set"
    /\ thr' = [thr EXCEPT ![t].pc = "loaded", ![t].off = activeDataFileOff]
    /\ UNCHANGED <<path, walVars, status, fs, dbVars, compactCommand, last, ret, cnt>>

\* db.go:300-308: the store of the sum, archive when the file is full, and
\* the return of nil
PutOffStore(t) ==
    /\ thr[t].pc = "loaded"
    /\ ~inArchived
    /\ LET off1 == Uint32(thr[t].off + RecSize(bytes(thr[t].ent)))
           ar == archive(World)
       IN IF off1 >= maxDataFileSize
            THEN /\ fs' = ar.W.fs
                 /\ activeDataFile' = ar.W.h
                 /\ activeFileId' = ar.id
                 /\ activeDataFileOff' = ar.off
            ELSE /\ activeDataFileOff' = off1
                 /\ UNCHANGED <<fs, activeDataFile, activeFileId>>
    /\ thr' = [thr EXCEPT ![t].pc = "done"]
    /\ ret' = Ret("Put", thr[t].key, thr[t].ent.value, "nil")
    /\ UNCHANGED <<path, walVars, status, keyDir, inArchived, inCompaction,
                   compactCommand, last, cnt>>

NextWriters ==
    \/ Open
    \/ \E t \in Writers, k \in Keys, v \in Values : PutBuild(t, k, v)
    \/ \E t \in Writers : PutWrite(t)
    \/ \E t \in Writers : PutSet(t)
    \/ \E t \in Writers : PutOffLoad(t)
    \/ \E t \in Writers : PutOffStore(t)
    \/ \E k \in Keys : Get(k)

SpecWriters == Init /\ [][NextWriters]_vars

\* the writers that have called Put, and whether no two of them wrote the
\* same key
Called(t) == thr[t].pc # "idle"
DistinctKeys ==
    \A t1, t2 \in Writers : (t1 # t2 /\ Called(t1) /\ Called(t2)) => thr[t1].key # thr[t2].key

\* C11: with writers that put distinct keys, a Get that returns a value
\* returns exactly the value that was put for the key: never bytes of
\* another entry and never a value of another length.
C11_GetReturnsPutValue ==
    (ret.op = "Get" /\ ret.err = "nil" /\ DistinctKeys)
        => \E t \in Writers :
             Called(t) /\ thr[t].key = ret.key /\ ret.val = thr[t].ent.value

\* the place of the entry of k that is physically last in the log: the
\* last entry of k in the data file of the highest id that holds one
LogLast(k) ==
    LET ids == {nm.id : nm \in {x \in Glob(fs, ".", dataFileExt) : EntriesOf(fs[x], k) # <<>>}}
        top == CHOOSE i \in ids : \A j \in ids : j <= i
        content == fs[dbDataFilename(path, top)]
        n == CHOOSE i \in 1..Len(content) :
               /\ IsKv(content[i]) /\ content[i].key = k
               /\ \A j \in (i + 1)..Len(content) : ~(IsKv(content[j]) /\ content[j].key = k)
    IN [fileId |-> top, valueOffset |-> ValueOff(content, n),
        valueSize |-> content[n].valueSize, value |-> content[n].value]

\* C12: when all writers have put the same key and have returned, the
\* key's descriptor points at the entry of the key that is physically last
\* in the log, and while that file is the active one Get returns its value.
C12_LastWriteWins ==
    \A k \in Keys :
      (\A t \in Writers : thr[t].pc = "done" /\ thr[t].key = k)
        => /\ HasKey(k)
           /\ keyDir[k].fileId = LogLast(k).fileId
           /\ keyDir[k].valueOffset = LogLast(k).valueOffset
           /\ keyDir[k].valueSize = LogLast(k).valueSize
           /\ keyDir[k].fileId = activeFileId
                => GetResult(k) = [err |-> "nil", val |-> LogLast(k).value]

(***************************************************************************)
(* Put at the size limits (db.go:238-254).                                 *)
(***************************************************************************)
NextLimits ==
    \/ Open
    \/ \E k \in {"a"} \cup LimitKeys, v \in {[c |-> "x", n |-> 1]} \cup LimitValues : Put(k, v)
    \/ \E k \in {"a"} \cup LimitKeys : Get(k)

SpecLimits == Init /\ [][NextLimits]_vars

\* a step of Put (Tick is the one other step that keeps ret)
PutStep ==
    /\ ret'.op = "Put" /\ compactCommand' = compactCommand
    /\ ret' # ret \/ cnt' # cnt

\* C13: Put is rejected with ErrKeyOrValueTooLong exactly when the key is
\* longer than maxKeySize or the value longer than maxValueSize; a rejected
\* Put changes neither the files, the offset nor the key directory; the
\* length of an accepted value is the valueSize of the entry appended and
\* of the key's descriptor.
C13_PutLimits ==
    [][PutStep =>
         LET k == ret'.key
             v == ret'.val
             tooLong == KeyLen(k) > maxKeySize \/ v.n > maxValueSize
             file == HandleData(World)
             file2 == IF activeFileId' = activeFileId
                        THEN HandleData(World')
                        ELSE fs'[activeDataFile.name]
         IN /\ (ret'.err = "ErrKeyOrValueTooLong") <=> tooLong
            /\ tooLong => UNCHANGED <<fs, activeDataFile, activeDataFileOff, keyDir>>
            /\ (ret'.err = "nil") =>
                 /\ Len(file2) = Len(file) + 1
                 /\ file2[Len(file2)].valueSize = v.n
                 /\ keyDir'[k].valueSize = v.n]_vars

(***************************************************************************)
(* Recovery of the key directory (db_compact.go:277-444).  The directory   *)
(* that is restored is built the way db_compact_test.go builds it: entries *)
(* are appended to data files and, for some of them, a hint record is      *)
(* appended to the hint file of the same id.                               *)
(***************************************************************************)
\* the ids of the data files the directory is built from
RecoveryFileIds == {1, 2}

\* the keys of the entries: Put accepts the empty key (db.go:246)
RecoveryKeys == Keys \cup {""}

\* an entry whose stored CRC is not the CRC of its fields
corrupted(ent) == [ent EXCEPT !.crc = <<"corrupted">>]

\* the entries written into the files: puts, tombstones and one entry
\* with a wrong CRC
RecoveryEntries ==
    {newEntry(k, v) : k \in RecoveryKeys, v \in {[c |-> "x", n |-> 1], Nil}}
    \cup {corrupted(newEntry("a", [c |-> "x", n |-> 1]))}

\* db_compact_test.go:124 writeEntryIntoFile followed, when hint is TRUE,
\* by db_compact_test.go:148 writeHintIntoFile with the keydir returned
writeEntryIntoFile(fileId, entry, hint) ==
    /\ status = "closed"
    /\ ret.op = "none"
    /\ cnt.writes < MaxWrites
    /\ LET dn == dataFilename(path, fileId)
           hn == hintFilename(path, fileId)
           old == IF Exists(fs, dn) THEN fs[dn] ELSE <<>>
           oldHint == IF Exists(fs, hn) THEN fs[hn] ELSE <<>>
           pos == SizeOf(old)
           keydir == [fileId |-> fileId,
                      valueSize |-> entry.valueSize,
                      valueOffset |-> Uint32(Uint32(pos) + kvEntry_fixedBytes + entry.keySize),
                      entryOffset |-> Uint32(pos),
                      keySize |-> Uint16(KeyLen(entry.key)),
                      key |-> entry.key]
           fs1 == WithFile(fs, dn, Append(old, bytes(entry)))
       IN fs' = IF hint THEN WithFile(fs1, hn, Append(oldHint, keydir)) ELSE fs1
    /\ cnt' = [cnt EXCEPT !.writes = @ + 1]
    /\ UNCHANGED <<path, walVars, thr, status, dbVars, compactCommand, last, ret>>

\* afero.Glob returns the names it matched sorted (sort.Strings); names
\* printed with "%010d" sort by their number
RECURSIVE SortedNames(_)
SortedNames(S) ==
    IF S = {} THEN <<>>
    ELSE LET m == CHOOSE x \in S : \A y \in S : x.id <= y.id
         IN <<m>> \o SortedNames(S \ {m})

\* part_013:91 the keydirMemEntry embedded in a keydirFileEntry
keydirMemEntry(rec) ==
    [fileId |-> rec.fileId, valueSize |-> rec.valueSize,
     entryOffset |-> rec.entryOffset, valueOffset |-> rec.valueOffset]

\* db_compact.go:404 readHintFile.  Bytes left behind by an overwritten
\* record decode to no record that was written: the read ends in an error.
RECURSIVE readHintLoop(_, _, _)
readHintLoop(content, i, keydirFileEntries) ==
    IF i > Len(content) THEN [err |-> "nil", keydirs |-> keydirFileEntries]
    ELSE IF IsJunk(content[i]) \/ IsKv(content[i])
      THEN [err |-> "EOF", keydirs |-> <<>>]
    ELSE readHintLoop(content, i + 1, Append(keydirFileEntries, content[i]))

readHintFile(f, filename) ==
    IF ~Exists(f, filename) THEN [err |-> "ENOENT", keydirs |-> <<>>]
    ELSE readHintLoop(f[filename], 1, <<>>)

\* db_compact.go:293 for _, keydir := range keydirs { keyDir.set(...) }
RECURSIVE setHints(_, _, _)
setHints(kd, keydirs, j) ==
    IF j > Len(keydirs) THEN kd
    ELSE setHints(MapSet(kd, keydirs[j].key, keydirMemEntry(keydirs[j])), keydirs, j + 1)

\* db_compact.go:280-297 the loop over snap.hintFiles
RECURSIVE restoreHints(_, _, _, _)
restoreHints(f, hintFiles, i, kd) ==
    IF i > Len(hintFiles) THEN [err |-> "nil", keyDir |-> kd]
    ELSE LET r == readHintFile(f, hintFiles[i])
         IN IF r.err # "nil"
              THEN [err |-> "read hint file failed", keyDir |-> kd]
              ELSE restoreHints(f, hintFiles, i + 1, setHints(kd, r.keydirs, 1))

\* db_compact.go:321 for _, kv := range kvs { keyDir.set(kv.key, keydirs[key]) }
RECURSIVE setEntries(_, _, _, _)
setEntries(kd, kvs, keydirs, j) ==
    IF j > Len(kvs) THEN kd
    ELSE setEntries(MapSet(kd, kvs[j].key, keydirs[kvs[j].key]), kvs, keydirs, j + 1)

\* db_compact.go:301-325 the loop over snap.dataFiles; hintFileIds are the
\* ids collected from snap.hintFiles
RECURSIVE restoreData(_, _, _, _, _)
restoreData(f, dataFiles, i, hintFileIds, kd) ==
    IF i > Len(dataFiles) THEN [err |-> "nil", keyDir |-> kd]
    ELSE LET fileId == fileIdFromFilename(dataFiles[i])
         IN IF fileId \in hintFileIds
              THEN restoreData(f, dataFiles, i + 1, hintFileIds, kd)
              ELSE LET r == readDataFile(f, dataFiles[i], fileId)
                   IN IF r.err # "nil"
                        THEN [err |-> r.err, keyDir |-> kd]
                        ELSE restoreData(f, dataFiles, i + 1, hintFileIds,
                                         setEntries(kd, r.kvs, r.keydirs, 1))

\* db_compact.go:277 restoreKeydirIndex: with a hint file in the snapshot
\* it returns after the hint files, before the loop over the data files
restoreKeydirIndex(f, snap, kd) ==
    LET hintFiles == SortedNames(snap.hintFiles)
        dataFiles == SortedNames(snap.dataFiles)
    IN IF Len(hintFiles) # 0 THEN restoreHints(f, hintFiles, 1, kd)
       ELSE IF Len(dataFiles) # 0 THEN restoreData(f, dataFiles, 1, {}, kd)
       ELSE [err |-> "nil", keyDir |-> kd]

\* restoreKeydirIndex(fs, snap, newKeyDir()) on the snapshot of path
RestoreKeydirIndex ==
    /\ status = "closed"
    /\ ret.op = "none"
    /\ LET r == restoreKeydirIndex(fs, takeDBPathSnap(fs, path), EmptyMap)
       IN /\ keyDir' = r.keyDir
          /\ ret' = Ret("restoreKeydirIndex", "", Nil, r.err)
          /\ status' = IF r.err = "panic" THEN "crashed" ELSE status
    /\ UNCHANGED <<path, walVars, thr, fs, activeDataFile, activeFileId,
                   activeDataFileOff, inArchived, inCompaction, compactCommand,
                   last, cnt>>

\* db.go:55 Open of the directory that was built
OpenDirectory ==
    /\ ret.op = "none"
    /\ Open

\* a directory is built, then restored or opened
NextRestore ==
    \/ \E id \in RecoveryFileIds, e \in RecoveryEntries, h \in BOOLEAN :
           writeEntryIntoFile(id, e, h)
    \/ RestoreKeydirIndex
    \/ OpenDirectory

SpecRestore == Init /\ [][NextRestore]_vars

\* the data files of path, the ones among them without a hint file of
\* their id, and the hint files
DataFiles == Glob(fs, path, dataFileExt)
HintFiles == Glob(fs, path, hintFileExt)
Uncovered == {dn \in DataFiles : \A hn \in HintFiles : hn.id # dn.id}

\* the places <<file, index>> of the entries of key k in the data files S
PlacesOf(S, k) ==
    UNION {{<<dn, i>> : i \in {j \in 1..Len(fs[dn]) :
                                 IsKv(fs[dn][j]) /\ fs[dn][j].key = k}} : dn \in S}

\* the last of them in scan order: ascending file id, then ascending offset
LastPlace(S, k) ==
    CHOOSE pl \in PlacesOf(S, k) :
        \A q \in PlacesOf(S, k) :
            q[1].id < pl[1].id \/ (q[1].id = pl[1].id /\ q[2] <= pl[2])

\* the descriptor of the entry at a place
DescriptorAt(pl) ==
    [fileId |-> pl[1].id,
     valueSize |-> fs[pl[1]][pl[2]].valueSize,
     entryOffset |-> EntryOff(fs[pl[1]], pl[2]),
     valueOffset |-> ValueOff(fs[pl[1]], pl[2])]

\* the keys with a record in some hint file
HintedKeys ==
    {k \in RecoveryKeys : \E hn \in HintFiles : \E j \in 1..Len(fs[hn]) : fs[hn][j].key = k}

\* the data files of S with an entry whose stored CRC is wrong
CorruptedIn(S) ==
    {dn \in S : \E j \in 1..Len(fs[dn]) :
                   IsKv(fs[dn][j]) /\ fs[dn][j].crc # checksum(fs[dn][j])}

Restored == ret.op = "restoreKeydirIndex"

\* C14: after a restore that found hint files (and no corrupted entry), a
\* key that has entries in data files without a hint file, and neither an
\* entry in a data file with a hint file nor a hint record, is in the key
\* directory with the descriptor of its last entry in those files.
C14_UncoveredFilesScanned ==
    (Restored /\ HintFiles # {} /\ CorruptedIn(DataFiles) = {}) =>
        \A k \in Keys :
            (/\ PlacesOf(Uncovered, k) # {}
             /\ PlacesOf(DataFiles \ Uncovered, k) = {}
             /\ k \notin HintedKeys)
                => /\ k \in DOMAIN keyDir
                   /\ keyDir[k] = DescriptorAt(LastPlace(Uncovered, k))

\* C15: a restore that found no hint file (and no corrupted entry)
\* succeeds, and the key directory holds exactly the keys that have an
\* entry in the data files, each with the descriptor of its last entry in
\* scan order (entryOffset is the offset of that entry's header).
C15_LastWriteWins ==
    (Restored /\ HintFiles = {} /\ CorruptedIn(DataFiles) = {}) =>
        /\ ret.err = "nil"
        /\ DOMAIN keyDir = {k \in RecoveryKeys : PlacesOf(DataFiles, k) # {}}
        /\ Cardinality(DOMAIN keyDir)
             = Cardinality({k \in RecoveryKeys : PlacesOf(DataFiles, k) # {}})
        /\ \A k \in DOMAIN keyDir :
               keyDir[k] = DescriptorAt(LastPlace(DataFiles, k))

\* C16: when a data file without a hint file holds an entry whose stored
\* CRC is wrong, restoring the key directory returns an error, and Open
\* returns an error and no store.
C16_CorruptedEntryFatal ==
    [][((ret'.op \in {"restoreKeydirIndex", "Open"} /\ ret.op = "none")
          /\ CorruptedIn(Uncovered) # {})
         => /\ ret'.err # "nil"
            /\ status' # "open"]_vars

(***************************************************************************)
(* Two compactions in succession (db_compact.go:81-271).                   *)
(***************************************************************************)
\* the option WithMaxFileBytes of the store that is compacted twice: an
\* output file is closed after the first entry whose value starts at or
\* behind this offset
optMaxFileBytes == 14

\* writes happen before the first compaction only
PutBefore(key, value) ==
    /\ cnt.merges = 0
    /\ Put(key, value)

DeleteBefore(key) ==
    /\ cnt.merges = 0
    /\ Delete(key)

NextTwice ==
    \/ Open
    \/ \E k \in Keys, v \in Values : PutBefore(k, v)
    \/ \E k \in Keys : DeleteBefore(k)
    \/ Merge
    \/ \E o \in Orders : CompactTwice(o, optMaxFileBytes)

SpecTwice == Init /\ [][NextTwice]_vars

\* the data files a compaction of file system f would read, and the hint
\* files of path that hold a record
CompactedFiles(f) ==
    {dn \in Glob(f, path, dataFileExt) : fileIdFromFilename(dn) # activeFileId}
WrittenHints(f) == {hn \in Glob(f, path, hintFileExt) : f[hn] # <<>>}

\* the (key, value) pairs the compacted data files of f hold
DataPairs(f) ==
    UNION {{<<f[dn][j].key, f[dn][j].value>> :
               j \in {i \in 1..Len(f[dn]) : IsKv(f[dn][i])}} : dn \in CompactedFiles(f)}

\* what the record rec of a hint file describes: its key and the bytes
\* its descriptor points at
Described(f, rec) ==
    IF IsJunk(rec) THEN <<"?", Garbage(rec.junk)>>
    ELSE IF ~Exists(f, dataFilename(path, rec.fileId)) THEN <<rec.key, Garbage(0)>>
    ELSE <<rec.key, ReadAt(f[dataFilename(path, rec.fileId)], rec.valueOffset, rec.valueSize).val>>

HintPairs(f) ==
    UNION {{Described(f, f[hn][j]) : j \in 1..Len(f[hn])} : hn \in WrittenHints(f)}

\* the second of two compactions in succession, both successful
SecondMerge ==
    /\ ret'.op = "merge" /\ cnt'.merges = cnt.merges + 1
    /\ cnt.merged = 1 /\ cnt'.merged = 2

\* C17: in a store whose active file id is 2 or more (no id of an output
\* file wraps around), the second of two successful compactions in
\* succession leaves the (key, value) pairs of the compacted data files and
\* the pairs their hint files describe unchanged, and afterwards every
\* record of a hint file belongs to a data file the second run wrote.
C17_Idempotent ==
    [][(SecondMerge /\ activeFileId >= 2) =>
         /\ DataPairs(fs') = DataPairs(fs)
         /\ HintPairs(fs') = HintPairs(fs)
         /\ \A hn \in WrittenHints(fs') :
                /\ \E n \in 1..Len(ret'.outputs) : ret'.outputs[n] = hn.id
                /\ \A j \in 1..Len(fs'[hn]) : ~IsJunk(fs'[hn][j])]_vars

(***************************************************************************)
(* The layout a compaction leaves (db_compact.go:81-158).                  *)
(***************************************************************************)
\* the backup files of file system f
BakFiles(f) == {nm \in DOMAIN f : nm.ext \in {dataFileExt \o bakExt, hintFileExt \o bakExt}}

\* C18: after a compaction that returned nil no .bak file exists, every
\* data file it wrote has a hint file of the same id, the active file id
\* is the one before the merge, and the active data file is the same file
\* with the same content and the same tracked offset.
C18_CleanLayout ==
    [][(MergeStep /\ ret'.err = "nil") =>
         /\ BakFiles(fs') = {}
         /\ \A n \in 1..Len(ret'.outputs) :
                Exists(fs', dataFilename(path, ret'.outputs[n]))
                    => Exists(fs', hintFilename(path, ret'.outputs[n]))
         /\ activeFileId' = activeFileId
         /\ activeDataFileOff' = activeDataFileOff
         /\ activeDataFile' = activeDataFile
         /\ HandleData(World') = HandleData(World)]_vars

(***************************************************************************)
(* The compactor task step by step (db_compact.go:17-71).  Every Open      *)
(* starts a task (db.go:120) and Close does not stop it (db.go:125-148):   *)
(* "c1" is the task of the store that is open, "c2" the task of a store    *)
(* that was closed, which goes on with the fields of its DB: its own       *)
(* channel and flag, and the activeFileId the store had (thr["c2"].off).   *)
(* pc is "idle" (c1 at the select, c2 not started), "select" (c2 at the    *)
(* select), "call" (merge called), "merging" (flag set, mergeFiles not     *)
(* done) or "deferred" (mergeFiles returned, deferred Store not done).     *)
(***************************************************************************)
\* calls of merge in a behaviour
MaxCalls == MaxMerges + 1

\* db.go:360 Merge while fewer than MaxCalls merges were asked for
MergeCommand ==
    /\ cnt.calls + compactCommand < MaxCalls
    /\ Merge

\* db_compact.go:38 the ticker case, likewise
TickCommand ==
    /\ cnt.calls + compactCommand < MaxCalls
    /\ Tick

\* db_compact.go:46 case <-db.compactCommand
Receive ==
    /\ status = "open"
    /\ thr["c1"].pc = "idle"
    /\ compactCommand = 1
    /\ compactCommand' = 0
    /\ thr' = [thr EXCEPT !["c1"].pc = "call"]
    /\ cnt' = [cnt EXCEPT !.calls = @ + 1]
    /\ UNCHANGED <<path, walVars, status, fs, dbVars, last, ret>>

\* db_compact.go:59 if !db.inCompaction.CompareAndSwap(false, true) { return nil }
MergeCAS ==
    /\ status = "open"
    /\ thr["c1"].pc = "call"
    /\ IF inCompaction
         THEN /\ thr' = [thr EXCEPT !["c1"].pc = "idle"]
              /\ ret' = Ret("merge skipped", "", Nil, "nil")
              /\ UNCHANGED inCompaction
         ELSE /\ inCompaction' = TRUE
              /\ thr' = [thr EXCEPT !["c1"].pc = "merging"]
              /\ UNCHANGED ret
    /\ UNCHANGED <<path, walVars, status, fs, activeDataFile, activeFileId, activeDataFileOff,
                   keyDir, inArchived, compactCommand, last, cnt>>

\* db_compact.go:70 mergeFiles(...) called by merge.  A panic runs the
\* deferred Store(false) and ends the process.
MergeFiles(order, fault) ==
    /\ status = "open"
    /\ thr["c1"].pc = "merging"
    /\ \E r \in {mergeFiles(World, path, activeFileId, maxDataFileSize, order, fault)} :
          /\ fs' = r.W.fs
          /\ activeDataFile' = r.W.h
          /\ status' = IF r.err = "panic" THEN "crashed" ELSE "open"
          /\ inCompaction' = IF r.err = "panic" THEN FALSE ELSE inCompaction
          /\ thr' = [thr EXCEPT !["c1"].pc = IF r.err = "panic" THEN "idle" ELSE "deferred"]
          /\ ret' = [Ret("merge", "", Nil, r.err) EXCEPT !.inputs = r.inputs,
                                                         !.outputs = r.outputs]
          /\ cnt' = [cnt EXCEPT !.merges = @ + 1,
                                !.merged = IF r.err = "nil" THEN @ + 1 ELSE @]
    /\ UNCHANGED <<path, walVars, activeFileId, activeDataFileOff, keyDir, inArchived,
                   compactCommand, last>>

\* db_compact.go:62 defer func() { db.inCompaction.Store(false) }()
MergeStore ==
    /\ status = "open"
    /\ thr["c1"].pc = "deferred"
    /\ inCompaction' = FALSE
    /\ thr' = [thr EXCEPT !["c1"].pc = "idle"]
    /\ UNCHANGED <<path, walVars, status, fs, activeDataFile, activeFileId, activeDataFileOff,
                   keyDir, inArchived, compactCommand, last, ret, cnt>>

\* db.go:125 Close of a store whose task waits at the select with an empty
\* channel: the task stays, with the DB it was started for
CloseHandle ==
    /\ status = "open"
    /\ thr["c1"].pc = "idle" /\ thr["c2"].pc = "idle"
    /\ compactCommand = 0
    /\ status' = "closed"
    /\ activeDataFile' = NilHandle
    /\ activeFileId' = 0
    /\ activeDataFileOff' = 0
    /\ keyDir' = EmptyMap
    /\ inArchived' = FALSE
    /\ inCompaction' = FALSE
    /\ compactCommand' = 0
    /\ thr' = [thr EXCEPT !["c2"].pc = "select", !["c2"].off = activeFileId]
    /\ ret' = Ret("Close", "", Nil, "nil")
    /\ UNCHANGED <<path, walVars, fs, last, cnt>>

\* the task of the closed store: its ticker case (db_compact.go:38) finds
\* needCompact, sends on its channel, the next round of the loop receives
\* (db_compact.go:46) and merge sets the flag of its DB (db_compact.go:59);
\* nobody else uses that channel and that flag
OrphanTick ==
    /\ status # "crashed"
    /\ thr["c2"].pc = "select"
    /\ cnt.calls < MaxCalls
    /\ needCompact
    /\ thr' = [thr EXCEPT !["c2"].pc = "merging"]
    /\ cnt' = [cnt EXCEPT !.calls = @ + 1]
    /\ UNCHANGED <<path, walVars, status, fs, dbVars, compactCommand, last, ret>>

\* mergeFiles of the task of the closed store, with the activeFileId of
\* its DB, and the deferred Store of its flag
OrphanMergeFiles(order) ==
    /\ status # "crashed"
    /\ thr["c2"].pc = "merging"
    /\ \E r \in {mergeFiles(World, path, thr["c2"].off, maxDataFileSize, order, NoFault)} :
          /\ fs' = r.W.fs
          /\ activeDataFile' = r.W.h
          /\ status' = IF r.err = "panic" THEN "crashed" ELSE status
          /\ ret' = [Ret("merge", "", Nil, r.err) EXCEPT !.inputs = r.inputs,
                                                         !.outputs = r.outputs]
          /\ cnt' = [cnt EXCEPT !.merges = @ + 1,
                                !.merged = IF r.err = "nil" THEN @ + 1 ELSE @]
    /\ thr' = [thr EXCEPT !["c2"].pc = "select"]
    /\ UNCHANGED <<path, walVars, activeFileId, activeDataFileOff, keyDir, inArchived,
                   inCompaction, compactCommand, last>>

MergeFaults == {NoFault, [kind |-> "read", at |-> 1]}

NextMergers ==
    \/ Open
    \/ CloseHandle
    \/ \E k \in Keys, v \in Values : Put(k, v)
    \/ MergeCommand
    \/ TickCommand
    \/ Receive
    \/ MergeCAS
    \/ \E o \in Orders, f \in MergeFaults : MergeFiles(o, f)
    \/ MergeStore
    \/ OrphanTick
    \/ \E o \in Orders : OrphanMergeFiles(o)

SpecMergers == Init /\ [][NextMergers]_vars

\* task t is inside merge with the flag of its DB set
Executing(t) == thr[t].pc \in {"merging", "deferred"}

\* C19: at most one compaction executes at any time; a merge that finds
\* the flag set returns without touching a file; the flag of the open
\* store is set exactly while its task executes a merge.
C19_OneCompaction ==
    /\ [](~(Executing("c1") /\ Executing("c2")))
    /\ [](status = "open" => (inCompaction = Executing("c1")))
    /\ [][(ret'.op = "merge skipped" /\ ret # ret')
            => UNCHANGED <<fs, activeDataFile>>]_vars

(***************************************************************************)
(* Merge and the compactor task of one store (db.go:360, db_compact.go:36).*)
(* The task is a goroutine of its own: a select with a ready case is       *)
(* taken, and merge, once called, runs to its end.                         *)
(***************************************************************************)
NextCompactor ==
    \/ Open
    \/ \E v \in Values : Put("a", v)
    \/ MergeCommand
    \/ TickCommand
    \/ Receive
    \/ MergeCAS
    \/ \E o \in Orders : MergeFiles(o, NoFault)
    \/ MergeStore

\* the states in which a step MergeFiles is possible.  MergeFiles is the one
\* step that leaves them, so weak fairness of MergeFiles is: the task is
\* again and again not in such a state.
MergeFilesEnabled == status = "open" /\ thr["c1"].pc = "merging"

SpecCompactor ==
    /\ Init
    /\ [][NextCompactor]_vars
    /\ WF_vars(Receive)
    /\ WF_vars(MergeCAS)
    /\ WF_vars(MergeStore)
    /\ []<>~MergeFilesEnabled

\* a call of Merge that changed the state
MergeCall ==
    /\ ret'.op = "Merge" /\ thr' = thr
    /\ ret' # ret \/ compactCommand' # compactCommand

\* C20: Merge can always be called on an open store and returns nil with
\* one command in the channel; every command in the channel is eventually
\* taken by the compactor task; every command taken is followed by one run
\* of mergeFiles, and the task returns to its select.
C20_MergeCommand ==
    /\ [](status = "open" => ENABLED Merge)
    /\ [][MergeCall => (ret'.err = "nil" /\ compactCommand' = 1)]_vars
    /\ [](cnt.calls = cnt.merges + (IF thr["c1"].pc \in {"call", "merging"} THEN 1 ELSE 0))
    /\ (compactCommand = 1) ~> (compactCommand = 0)
    /\ (thr["c1"].pc = "call") ~> (thr["c1"].pc = "idle" /\ ~inCompaction)

(***************************************************************************)
(* The automatic trigger.                                                  *)
(***************************************************************************)
\* the immutable data files: every data file but the one behind the
\* active handle
Immutable ==
    {nm \in DOMAIN fs :
        /\ nm.ext = dataFileExt
        /\ ~(activeDataFile.kind = "file" /\ activeDataFile.name = nm)}

\* C21: a tick publishes a command only when the number of immutable data
\* files exceeds compactThreshold; a tick at or below it changes neither
\* the channel nor any file nor the store.
C21_AutoTrigger ==
    [][(Tick /\ ~(Cardinality(Immutable) > compactThreshold))
         => UNCHANGED <<compactCommand, fs, dbVars>>]_vars

(***************************************************************************)
(* The write-ahead log (wal/wal.go, segment.go).  A log is a list of       *)
(* segments; a segment has an entry file and a meta file in Config.Root.   *)
(* wal is NilWAL or the WAL of the process:                                *)
(*   state      "open", "closed" after Close, "crashed" after a panic,     *)
(*              "failed" when NewWAL returned an error                     *)
(*   cfg        Config.MaxSegments and Config.MaxSegmentSize               *)
(*   segments   WAL.segments, a list of pointers: each is the Index of a   *)
(*              segment in heap (an Index is given to one segment only)    *)
(*   heap       the segments that pointers of the WAL refer to             *)
(*   current    WAL.current: an Index, or 0 for nil                        *)
(*   currentSegmentIdx, latest, oldest   as in the source                  *)
(* A segment is its segmentMeta with buf, entryFlushed and open: whether   *)
(* its two files are open (entry and meta are set and cleared together).   *)
(* buf is the list of the encoded entries, entryPos the boundaries between *)
(* them.  An operation works on a pair X = [w, d]: the WAL and the files.  *)
(***************************************************************************)
\* part_000:7 __EntryLenSize
EntryLenSize == 2

\* segment.go:17 the suffixes of the two files of a segment
segmentFileSuffix == ".wal"
segmentMetaFileSuffix == ".wal.meta"

\* segment.go:351 segmentFile, segment.go:355 segmentMetaFile: "%010d" of
\* the index and the suffix, in Config.Root
segmentFile(idx) == [id |-> idx, ext |-> segmentFileSuffix]
segmentMetaFile(idx) == [id |-> idx, ext |-> segmentMetaFileSuffix]

\* segment.go:321 writeBinary: the length as uint16, then the entry
writeBinary(entry) == [len |-> Uint16(entry.n), data |-> entry]

\* the number of bytes of an encoded entry
EncLen(b) == EntryLenSize + b.data.n

\* segment.go:347 size: len(s.buf)
RECURSIVE size(_)
size(buf) == IF buf = <<>> THEN 0 ELSE EncLen(Head(buf)) + size(Tail(buf))

\* segment.go:307 readBinary of the bytes between two entry positions
readBinary(b) ==
    IF b.len # EncLen(b) - EntryLenSize
      THEN [entry |-> <<>>, err |-> "invalid entry"]
      ELSE [entry |-> b.data, err |-> "nil"]

\* the segmentMeta of a segment, which json.Marshal writes field by field
\* and json.Unmarshal reads back (segment.go:270, segment.go:478)
segmentMeta(s) ==
    [Index |-> s.Index, Archived |-> s.Archived, Start |-> s.Start,
     End |-> s.End, Truncated |-> s.Truncated]

\* the segment with index id, and X with that segment replaced by s
Seg(X, id) == X.w.heap[id]
SetSeg(X, s) == [X EXCEPT !.w.heap = MapSet(@, s.Index, s)]

\* segment.go:104 openFiles: both files are created when they do not exist
openFiles(X, id) ==
    LET d1 == IF Exists(X.d, segmentFile(id)) THEN X.d
              ELSE WithFile(X.d, segmentFile(id), <<>>)
        d2 == IF Exists(d1, segmentMetaFile(id)) THEN d1
              ELSE WithFile(d1, segmentMetaFile(id), <<>>)
    IN  [SetSeg(X, [Seg(X, id) EXCEPT !.open = TRUE]) EXCEPT !.d = d2]

\* segment.go:75 newSegment
newSegment(X, index, start) ==
    openFiles(SetSeg(X, [Index |-> index, Archived |-> FALSE, Start |-> start,
                         End |-> start - 1, Truncated |-> -1, buf |-> <<>>,
                         entryFlushed |-> 0, open |-> FALSE]),
              index)

\* segment.go:236 safelyRemove: closeFiles, then the two os.Remove; the
\* first that fails ends it
safelyRemove(X, id) ==
    LET X1 == SetSeg(X, [Seg(X, id) EXCEPT !.open = FALSE])
    IN  IF ~Exists(X1.d, segmentFile(id)) THEN [X |-> X1, err |-> "ENOENT"]
        ELSE LET X2 == [X1 EXCEPT !.d = WithoutFile(@, segmentFile(id))]
             IN  IF ~Exists(X2.d, segmentMetaFile(id))
                   THEN [X |-> X2, err |-> "ENOENT"]
                   ELSE [X |-> [X2 EXCEPT !.d = WithoutFile(@, segmentMetaFile(id))],
                         err |-> "nil"]

\* buf[entryFlushed:], the encoded entries behind the first n bytes
RECURSIVE From(_, _)
From(buf, n) ==
    IF n <= 0 \/ buf = <<>> THEN buf ELSE From(Tail(buf), n - EncLen(Head(buf)))

\* segment.go:249 flushEntries: Write on a nil *os.File returns ErrInvalid
flushEntries(X, id) ==
    LET s == Seg(X, id)
    IN  IF s.Archived THEN [X |-> X, err |-> "nil"]
        ELSE IF ~s.open THEN [X |-> X, err |-> "ErrInvalid"]
        ELSE [X |-> [SetSeg(X, [s EXCEPT !.entryFlushed = size(s.buf)])
                       EXCEPT !.d = IF Exists(X.d, segmentFile(id))
                                      THEN WithFile(X.d, segmentFile(id),
                                               X.d[segmentFile(id)]
                                                 \o From(s.buf, s.entryFlushed))
                                      ELSE X.d],
              err |-> "nil"]

\* segment.go:269 flushMeta: through the open file, or os.WriteFile, which
\* creates the file
flushMeta(X, id) ==
    LET s == Seg(X, id)
    IN  IF s.open /\ ~Exists(X.d, segmentMetaFile(id)) THEN [X |-> X, err |-> "nil"]
        ELSE [X |-> [X EXCEPT !.d = WithFile(@, segmentMetaFile(id),
                                             <<segmentMeta(s)>>)],
              err |-> "nil"]

\* segment.go:210 flush
flush(X, id, newArchived) ==
    LET s == Seg(X, id)
    IN  IF (s.Archived \/ newArchived) /\ s.Truncated >= s.End
          THEN safelyRemove(X, id)
        ELSE IF s.Archived THEN flushMeta(X, id)
        ELSE LET r == flushEntries(X, id)
             IN  IF r.err # "nil" THEN r
                 ELSE flushMeta(SetSeg(r.X, [Seg(r.X, id) EXCEPT
                                               !.Archived = newArchived]), id)

\* segment.go:148 markTruncated
markTruncated(X, id, offset) ==
    LET s == Seg(X, id)
    IN  IF offset < s.Start THEN [X |-> X, removed |-> FALSE, err |-> "nil"]
        ELSE LET r == flush(SetSeg(X, [s EXCEPT !.Truncated = offset]), id, FALSE)
             IN  [X |-> r.X, removed |-> offset >= s.End, err |-> r.err]

\* segment.write returning the End it found instead of the new one
segWrite_oldEnd(X, id, entry) ==
    LET s == Seg(X, id)
    IN  IF s.Archived
          THEN [X |-> X, offset |-> -1, err |-> "ErrSegmentArchived"]
          ELSE [X |-> SetSeg(X, [s EXCEPT !.buf = Append(@, writeBinary(entry)),
                                          !.End = @ + 1]),
                offset |-> s.End, err |-> "nil"]

\* segment.go:329 segment.write
segWrite(X, id, entry) ==
    LET s == Seg(X, id)
    IN  IF s.Archived
          THEN [X |-> X, offset |-> -1, err |-> "ErrSegmentArchived"]
          ELSE [X |-> SetSeg(X, [s EXCEPT !.buf = Append(@, writeBinary(entry)),
                                          !.End = @ + 1]),
                offset |-> s.End + 1, err |-> "nil"]

\* segment.go:62 canRead and segment.go:290 segment.read
segRead(s, offset) ==
    IF offset < s.Start \/ offset > s.End \/ offset <= s.Truncated
      THEN [entry |-> <<>>, err |-> "ErrSegmentInvalidOffset"]
      ELSE readBinary(s.buf[offset - s.Start + 1])

\* the list without its element at position i (from 1)
RemoveAt(list, i) == SubSeq(list, 1, i - 1) \o SubSeq(list, i + 1, Len(list))

\* wal.go:333 max
max(a, b) == IF a > b THEN a ELSE b

\* wal.go:162 releaseSegment(index), index from 0.  w.segments[index]
\* panics behind the end of the list and w.current.Index when w.current
\* is nil; the error of safelyRemove is dropped.
releaseSegment(X, index) ==
    IF index >= Len(X.w.segments) \/ X.w.current = 0
      THEN [X |-> X, panic |-> TRUE]
      ELSE LET id == X.w.segments[index + 1]
               r == safelyRemove([X EXCEPT !.w.current = IF @ = id THEN 0 ELSE @],
                                 id)
           IN  [X |-> [r.X EXCEPT !.w.segments = RemoveAt(@, index + 1),
                                  !.w.oldest = max(@, Seg(X, id).End + 1)],
                panic |-> FALSE]

\* allocSegment without the release of the oldest segments
releaseLoop_never(X) == [X |-> X, err |-> "nil", panic |-> FALSE]

\* wal.go:155 for len(w.segments) > w.MaxSegments { w.releaseSegment(0) }
RECURSIVE releaseLoop(_)
releaseLoop(X) ==
    IF Len(X.w.segments) <= X.w.cfg.MaxSegments
      THEN [X |-> X, err |-> "nil", panic |-> FALSE]
      ELSE LET r == releaseSegment(X, 0)
           IN  IF r.panic THEN [X |-> r.X, err |-> "nil", panic |-> TRUE]
               ELSE releaseLoop(r.X)

\* wal.go:136 allocSegment
allocSegment(X) ==
    LET idx == Uint32(X.w.currentSegmentIdx + 1)
        X1 == newSegment([X EXCEPT !.w.currentSegmentIdx = idx], idx,
                         X.w.latest + 1)
        r == IF X1.w.current # 0 THEN flush(X1, X1.w.current, TRUE)
             ELSE [X |-> X1, err |-> "nil"]
    IN  IF r.err # "nil" THEN [X |-> r.X, err |-> r.err, panic |-> FALSE]
        ELSE releaseLoop(flush([r.X EXCEPT !.w.segments = Append(@, idx),
                                           !.w.current = idx],
                               idx, FALSE).X)

\* wal.go:206 Write.  w.current.write panics when allocSegment left
\* w.current nil.
WALWrite(X, entry) ==
    LET a == IF X.w.current = 0 THEN allocSegment(X)
             ELSE [X |-> X, err |-> "nil", panic |-> FALSE]
    IN  IF a.panic \/ (a.err = "nil" /\ a.X.w.current = 0)
          THEN [X |-> a.X, offset |-> 0, err |-> "nil", panic |-> TRUE]
        ELSE IF a.err # "nil"
          THEN [X |-> a.X, offset |-> 0, err |-> a.err, panic |-> FALSE]
        ELSE LET r == segWrite(a.X, a.X.w.current, entry)
             IN  IF r.err # "nil"
                   THEN [X |-> r.X, offset |-> 0, err |-> r.err, panic |-> FALSE]
                 ELSE LET X2 == [r.X EXCEPT !.w.latest = r.offset,
                                            !.w.oldest = IF @ = 0 THEN r.offset
                                                         ELSE @]
                      IN  IF size(Seg(X2, X2.w.current).buf)
                               >= X2.w.cfg.MaxSegmentSize
                            THEN LET b == allocSegment(X2)
                                 IN  [X |-> b.X, offset |-> r.offset,
                                      err |-> b.err, panic |-> b.panic]
                            ELSE [X |-> X2, offset |-> r.offset,
                                  err |-> "nil", panic |-> FALSE]

\* wal.go:236 locateSegment: the first segment (binary search in a list
\* with increasing End) whose End is at or behind offset, when it holds
\* offset; 0 for ErrSegmentNotFound
locateSegment(w, offset) ==
    LET at == {i \in 1..Len(w.segments) : w.heap[w.segments[i]].End >= offset}
    IN  IF at = {} THEN 0
        ELSE LET s == w.heap[w.segments[CHOOSE i \in at : \A j \in at : i <= j]]
             IN  IF s.Start <= offset /\ offset <= s.End THEN s.Index ELSE 0

\* wal.go:252 Read
WALRead(w, offset) ==
    LET o == IF offset < 0 THEN w.latest ELSE offset
        seg == locateSegment(w, o)
    IN  IF seg = 0 THEN [entry |-> <<>>, err |-> "ErrEntryNotFound"]
        ELSE LET r == segRead(w.heap[seg], o)
             IN  IF r.err = "ErrSegmentInvalidOffset"
                   THEN [entry |-> <<>>, err |-> "ErrEntryNotFound"]
                   ELSE r

\* wal.go:313 the loop of TruncateBefore.  range reads the elements of the
\* array behind w.segments as the list was long when the loop began (arr),
\* and releaseSegment moves the elements of that array while the loop runs:
\* append(w.segments[:index], w.segments[index+1:]...) shifts the elements
\* behind index to the left and leaves the last one where it was.
RECURSIVE truncateLoop(_, _, _, _, _)
truncateLoop(X, arr, index, seg, offset) ==
    IF index >= Len(arr) THEN [X |-> X, err |-> "nil", panic |-> FALSE]
    ELSE IF arr[index + 1] > seg THEN truncateLoop(X, arr, index + 1, seg, offset)
    ELSE LET m == markTruncated(X, arr[index + 1], offset)
         IN  IF m.err # "nil" THEN [X |-> m.X, err |-> m.err, panic |-> FALSE]
             ELSE IF ~m.removed THEN truncateLoop(m.X, arr, index + 1, seg, offset)
             ELSE LET n == Len(m.X.w.segments)
                      r == releaseSegment(m.X, index)
                  IN  IF r.panic THEN [X |-> r.X, err |-> "nil", panic |-> TRUE]
                      ELSE truncateLoop(r.X,
                               [j \in 1..Len(arr) |->
                                   IF index + 1 <= j /\ j <= n - 1 THEN arr[j + 1]
                                   ELSE arr[j]],
                               index + 1, seg, offset)

\* wal.go:296 TruncateBefore
TruncateBefore(X, offset) ==
    LET seg == locateSegment(X.w, offset)
    IN  IF seg = 0 THEN [X |-> X, err |-> "nil", panic |-> FALSE]
        ELSE truncateLoop([X EXCEPT !.w.oldest =
                               IF max(offset + 1, @) > X.w.latest THEN X.w.latest
                               ELSE max(offset + 1, @)],
                          X.w.segments, 0, seg, offset)

\* wal.go:190 Flush
RECURSIVE flushLoop(_, _)
flushLoop(X, i) ==
    IF i > Len(X.w.segments) THEN [X |-> X, err |-> "nil"]
    ELSE LET r == flush(X, X.w.segments[i], FALSE)
         IN  IF r.err # "nil" THEN r ELSE flushLoop(r.X, i + 1)

\* segment.go:378 readSegment of the entry file of index idx.  The loop
\* over the length fields finds the entries that were written when every
\* length fits its field; an entry of 65536 bytes or more has a field that
\* is too small, the loop then finds more entries than End - Start + 1.
\* seg.entryPos[last] panics for a file without entries (last is -1).
readSegment(d, idx) ==
    IF ~Exists(d, segmentMetaFile(idx)) THEN [err |-> "ENOENT", panic |-> FALSE]
    ELSE IF d[segmentMetaFile(idx)] = <<>>
      THEN [err |-> "unexpected end of JSON input", panic |-> FALSE]
    ELSE LET meta == d[segmentMetaFile(idx)][1]
             data == d[segmentFile(idx)]
         IN  IF \/ \E i \in 1..Len(data) : data[i].len # data[i].data.n
                \/ Len(data) # meta.End - meta.Start + 1
               THEN [err |-> "ErrSegmentFileMess", panic |-> FALSE]
             ELSE IF Len(data) = 0 THEN [err |-> "nil", panic |-> TRUE]
             ELSE [err |-> "nil", panic |-> FALSE,
                   seg |-> [Index |-> meta.Index, Archived |-> meta.Archived,
                            Start |-> meta.Start, End |-> meta.End,
                            Truncated |-> meta.Truncated, buf |-> data,
                            entryFlushed |-> size(data),
                            open |-> ~meta.Archived]]

\* wal.go:91 the loop of restore over the entry files of the directory, in
\* the order of their names
RECURSIVE restoreLoop(_, _)
restoreLoop(X, ids) ==
    IF ids = <<>> THEN [X |-> X, err |-> "nil", panic |-> FALSE]
    ELSE LET r == readSegment(X.d, Head(ids))
         IN  IF r.panic \/ r.err # "nil"
               THEN [X |-> X, err |-> r.err, panic |-> r.panic]
               ELSE restoreLoop([SetSeg(X, r.seg) EXCEPT
                                    !.w.segments = Append(@, r.seg.Index)],
                                Tail(ids))

\* the indexes in S as an increasing list
RECURSIVE Ascending(_)
Ascending(S) ==
    IF S = {} THEN <<>>
    ELSE LET m == CHOOSE x \in S : \A y \in S : x <= y
         IN  <<m>> \o Ascending(S \ {m})

\* wal.go:36 NewWAL and wal.go:70 restore
restore(cfg, d) ==
    LET w0 == [state |-> "open", cfg |-> cfg, segments |-> <<>>,
               heap |-> EmptyMap, current |-> 0, currentSegmentIdx |-> 0,
               latest |-> 0, oldest |-> 0]
        r == restoreLoop([w |-> w0, d |-> d],
                 Ascending({nm.id : nm \in {x \in DOMAIN d :
                                               x.ext = segmentFileSuffix}}))
    IN  IF r.panic \/ r.err # "nil" THEN r
        ELSE IF r.X.w.segments = <<>> THEN allocSegment(r.X)
        ELSE LET first == Seg(r.X, r.X.w.segments[1])
                 lastSeg == Seg(r.X, r.X.w.segments[Len(r.X.w.segments)])
             IN  [X |-> [r.X EXCEPT
                           !.w.current = IF lastSeg.Archived THEN 0
                                         ELSE lastSeg.Index,
                           !.w.currentSegmentIdx = lastSeg.Index,
                           !.w.latest = lastSeg.End,
                           !.w.oldest = max(first.Start, first.Truncated + 1)],
                  err |-> "nil", panic |-> FALSE]

(***************************************************************************)
(* The operations of the log.  A panic ends the process ("crashed"); the   *)
(* files stay as they were when it happened and NewWAL may be called by a  *)
(* new process.  NewWAL after Close or after a crash is given the Config   *)
(* of the first call.                                                      *)
(***************************************************************************)
\* Writes, calls of NewWAL and calls of TruncateBefore in a behaviour
MaxWalWrites == 5
MaxWalOpens == 2
MaxWalTruncates == 2

\* the lengths of the entries that are written (encoded: 3 and 6 bytes)
WalEntryLens == {1, 4}

\* option.go:15 MaxSegmentSize and option.go:16 MaxSegments: 0, and (scaled)
\* a size that two short entries or one long entry reach, 1 and 3 segments
WalSegmentSize == 6
WalSegmentsFew == 1
WalSegmentsMany == 3
WalConfigs ==
    [MaxSegments : {0, WalSegmentsFew, WalSegmentsMany},
     MaxSegmentSize : {0, WalSegmentSize}]

\* everything of the store, which the log leaves alone
storeVars == <<path, status, fs, dbVars, compactCommand, last, ret, cnt, thr>>

\* the WAL without the segments that no pointer of it refers to
Collected(w) ==
    [w EXCEPT !.heap = [id \in {w.segments[i] : i \in 1..Len(w.segments)}
                          |-> w.heap[id]]]

\* the process after an operation of the log that ended in X
After(X, panic) ==
    /\ wal' = IF panic THEN [state |-> "crashed", cfg |-> X.w.cfg]
              ELSE Collected(X.w)
    /\ walRoot' = X.d

\* wal.go:36 NewWAL
NewWAL(cfg) ==
    /\ wal.state # "open"
    /\ walCnt.opens < MaxWalOpens
    /\ wal.state # "none" => cfg = wal.cfg
    /\ \E r \in {restore(cfg, walRoot)} :
         /\ IF r.err # "nil" /\ ~r.panic
              THEN wal' = [state |-> "failed", cfg |-> cfg] /\ walRoot' = r.X.d
              ELSE After(r.X, r.panic)
         /\ walRet' = WalRet("NewWAL", 0, <<>>, IF r.panic THEN "panic" ELSE r.err)
    /\ walCnt' = [walCnt EXCEPT !.opens = @ + 1]
    /\ UNCHANGED <<walLog, storeVars>>

\* wal.go:206 Write of an entry with a content of its own
Write(n) ==
    /\ wal.state = "open"
    /\ walCnt.writes < MaxWalWrites
    /\ \E r \in {WALWrite([w |-> wal, d |-> walRoot],
                          [c |-> walCnt.writes + 1, n |-> n])} :
         /\ After(r.X, r.panic)
         /\ walRet' = WalRet("Write", r.offset, [c |-> walCnt.writes + 1, n |-> n],
                             IF r.panic THEN "panic" ELSE r.err)
         /\ walLog' = IF r.panic \/ r.err # "nil" THEN walLog
                      ELSE Append(walLog, [offset |-> r.offset,
                                           entry |-> [c |-> walCnt.writes + 1,
                                                      n |-> n]])
    /\ walCnt' = [walCnt EXCEPT !.writes = @ + 1]
    /\ UNCHANGED storeVars

\* wal.go:252 Read
Read(offset) ==
    /\ wal.state = "open"
    /\ \E r \in {WALRead(wal, offset)} :
         walRet' = WalRet("Read", offset, r.entry, r.err)
    /\ UNCHANGED <<wal, walRoot, walLog, walCnt, storeVars>>

\* wal.go:296 TruncateBefore
Truncate(offset) ==
    /\ wal.state = "open"
    /\ walCnt.truncates < MaxWalTruncates
    /\ \E r \in {TruncateBefore([w |-> wal, d |-> walRoot], offset)} :
         /\ After(r.X, r.panic)
         /\ walRet' = WalRet("TruncateBefore", offset, <<>>,
                             IF r.panic THEN "panic" ELSE r.err)
    /\ walCnt' = [walCnt EXCEPT !.truncates = @ + 1]
    /\ UNCHANGED <<walLog, storeVars>>

\* wal.go:190 Flush
Flush ==
    /\ wal.state = "open"
    /\ \E r \in {flushLoop([w |-> wal, d |-> walRoot], 1)} :
         /\ After(r.X, FALSE)
         /\ walRet' = WalRet("Flush", 0, <<>>, r.err)
    /\ UNCHANGED <<walLog, walCnt, storeVars>>

\* wal.go:175 Close: Flush, then the files of every segment are closed
\* (segment.close); the WAL is not used after it
WALClose ==
    /\ wal.state = "open"
    /\ \E r \in {flushLoop([w |-> wal, d |-> walRoot], 1)} :
         /\ IF r.err # "nil" THEN After(r.X, FALSE)
            ELSE /\ wal' = [Collected(r.X.w) EXCEPT !.state = "closed"]
                 /\ walRoot' = r.X.d
         /\ walRet' = WalRet("Close", 0, <<>>, r.err)
    /\ UNCHANGED <<walLog, walCnt, storeVars>>

\* the offsets that are read and truncated at: every offset that was
\* returned, the one before and the one behind
WalOffsets == 0..(MaxWalWrites + 1)

NextWAL ==
    \/ \E cfg \in WalConfigs : NewWAL(cfg)
    \/ \E n \in WalEntryLens : Write(n)
    \/ \E o \in WalOffsets \cup {-1} : Read(o)
    \/ \E o \in WalOffsets : Truncate(o)
    \/ Flush
    \/ WALClose

\* the log of a process whose store is never opened
InitWAL == Init /\ path = "."

SpecWAL == InitWAL /\ [][NextWAL]_vars

(***************************************************************************)
(* Properties of the log.                                                  *)
(***************************************************************************)
\* the log is the one that the first NewWAL made in the empty directory
FreshWAL == walCnt.opens = 1

\* C22: on a fresh log the k-th successful Write returned offset k, and
\* latest is the offset that the last successful Write returned.
C22_ConsecutiveOffsets ==
    FreshWAL =>
        /\ \A k \in 1..Len(walLog) : walLog[k].offset = k
        /\ (wal.state = "open" /\ walLog # <<>>)
              => wal.latest = walLog[Len(walLog)].offset

\* every Write of the bound succeeded on a fresh log that rolled over and
\* released its first segment because of MaxSegments
C22_Witness ==
    /\ FreshWAL
    /\ wal.state = "open"
    /\ walCnt.truncates = 0
    /\ Len(walLog) = MaxWalWrites
    /\ wal.segments[1] > 1
    /\ Len(wal.segments) > 1

\* NewWAL is called on the directory of a log that Close closed
Reopen ==
    /\ wal.state = "closed"
    /\ walRet.op = "Close"
    /\ walRet'.op = "NewWAL"

\* C23: NewWAL after Close returns a log on which Read gives for every
\* offset what it gave before the Close, with the same oldest and latest.
C23_RestorePreservesReads ==
    [][Reopen => /\ wal'.state = "open"
                 /\ \A o \in WalOffsets : WALRead(wal', o) = WALRead(wal, o)
                 /\ wal'.oldest = wal.oldest
                 /\ wal'.latest = wal.latest]_vars

\* the entry that the last successful Write which returned offset i wrote
RECURSIVE Written(_, _)
Written(log, i) ==
    IF log = <<>> THEN <<>>
    ELSE IF log[Len(log)].offset = i THEN log[Len(log)].entry
    ELSE Written(SubSeq(log, 1, Len(log) - 1), i)

\* TruncateBefore(n) returns nil for an offset n inside a segment
TruncatedAt(n) ==
    /\ wal.state = "open"
    /\ walCnt'.truncates = walCnt.truncates + 1
    /\ walRet' = WalRet("TruncateBefore", n, <<>>, "nil")
    /\ locateSegment(wal, n) # 0

\* C24: after a successful TruncateBefore(n) of an offset inside a segment
\* of a fresh log, Read returns ErrEntryNotFound at every offset up to n
\* and the written entry at every offset from n + 1 to latest.
C24_TruncationExact ==
    [][\A n \in WalOffsets :
         (FreshWAL /\ TruncatedAt(n)) =>
            \A i \in 1..wal'.latest :
               WALRead(wal', i) =
                  IF i <= n THEN [entry |-> <<>>, err |-> "ErrEntryNotFound"]
                  ELSE [entry |-> Written(walLog, i), err |-> "nil"]]_vars

\* Write returned an offset without error on a log with MaxSegments >= 1
Wrote ==
    /\ wal.state = "open"
    /\ wal.cfg.MaxSegments >= 1
    /\ walCnt'.writes = walCnt.writes + 1
    /\ walRet'.err = "nil"

\* the properties of the list of segments that C25 names, in the state
\* behind a step from the list before
CapKept(before, w) ==
    /\ Len(w.segments) <= w.cfg.MaxSegments
    /\ \A i \in 1..Len(before) :
          (\A j \in 1..Len(w.segments) : w.segments[j] # before[i])
             => \A j \in 1..Len(w.segments) : before[i] < w.segments[j]
    /\ w.segments # <<>>
    /\ w.heap[w.segments[Len(w.segments)]].End = w.latest
    /\ w.oldest = w.heap[w.segments[1]].Start
    /\ \A o \in 1..w.latest :
          WALRead(w, o) =
             IF o < w.oldest THEN [entry |-> <<>>, err |-> "ErrEntryNotFound"]
             ELSE [entry |-> Written(walLog', o), err |-> "nil"]

WriteCall ==
    /\ wal.state = "open"
    /\ walCnt'.writes = walCnt.writes + 1
    /\ walCnt.truncates = 0
    /\ FreshWAL

\* C26: with MaxSegments = 0 a Write releases no segment, with
\* MaxSegmentSize = 0 a Write does not replace the current segment, and
\* with either every Write succeeds and every written entry is still read.
C26_ZeroMeansUnlimited ==
    [][(WriteCall /\ (wal.cfg.MaxSegments = 0 \/ wal.cfg.MaxSegmentSize = 0))
         => /\ wal'.state = "open"
            /\ walRet'.err = "nil"
            /\ wal.cfg.MaxSegments = 0
                 => \A i \in 1..Len(wal.segments) :
                       \E j \in 1..Len(wal'.segments) :
                          wal'.segments[j] = wal.segments[i]
            /\ (wal.cfg.MaxSegmentSize = 0 /\ wal.current # 0)
                 => wal'.current = wal.current
            /\ \A o \in 1..Len(walLog') :
                  WALRead(wal', walLog'[o].offset)
                     = [entry |-> walLog'[o].entry, err |-> "nil"]]_vars

\* the step removes the entry file of the segment with index id
Removed(id) ==
    /\ Exists(walRoot, segmentFile(id))
    /\ ~Exists(walRoot', segmentFile(id))

\* C27: an operation of an open log removes the entry file of a segment
\* only when the segment is archived (or is the current one that this
\* Write archives) and all its entries are truncated: Truncated, or the
\* offset this TruncateBefore is given, is at or behind its End.
C27_RemovedOnlyWhenTruncated ==
    [][wal.state = "open" =>
         \A id \in DOMAIN wal.heap :
            Removed(id) =>
               /\ \/ wal.heap[id].Archived
                  \/ (id = wal.current /\ walCnt'.writes # walCnt.writes)
               /\ max(wal.heap[id].Truncated,
                      IF walCnt'.truncates # walCnt.truncates
                        THEN walRet'.offset ELSE -1)
                    >= wal.heap[id].End]_vars

(***************************************************************************)
(* Rotation of the active data file.                                       *)
(***************************************************************************)
\* a Put or Delete appended an entry
Appended ==
    /\ status = "open"
    /\ cnt'.writes = cnt.writes + 1
    /\ ret'.err = "nil"

\* the offset behind the entry that the step appended
NewOffset == activeDataFileOff + RecSize(bytes(newEntry(ret'.key, ret'.val)))

\* C28: a write that brings the offset to maxDataFileSize or above raises
\* activeFileId by one, leaves the file that was active for another file
\* and tracks the length of the new active file; a write that stays below
\* leaves activeFileId as it is; so that every write starts on an active
\* file that is shorter than maxDataFileSize.
C28_RotationStep ==
    /\ [][Appended =>
            IF NewOffset >= maxDataFileSize
              THEN /\ activeFileId' = activeFileId + 1
                   /\ activeDataFile'.kind = "file"
                   /\ activeDataFile' # activeDataFile
                   /\ activeDataFileOff' = SizeOf(HandleData(World'))
              ELSE activeFileId' = activeFileId]_vars
    /\ [](status = "open" =>
            /\ activeDataFileOff < maxDataFileSize
            /\ SizeOf(HandleData(World)) < maxDataFileSize)

(***************************************************************************)
(* Rotation in steps (db.go:211-236) next to writers and readers.  archive *)
(* runs on the thread whose write filled the file and holds no lock: the   *)
(* compare-and-swap of inArchived, the close of the handles, the two opens *)
(* and the store of false are steps of their own.  Get (db.go:311-331)     *)
(* takes no lock either: it fetches the descriptor and compares its file   *)
(* id with activeFileId, and reads in a later step.  Every thread runs one *)
(* operation.                                                              *)
(***************************************************************************)
\* os.OpenFile succeeds, or fails for want of a descriptor or of space
OpenErrs == {"nil", "EMFILE"}

\* db.go:300-308: the store of the sum; archive is called when the file is
\* full, otherwise write returns nil
PutOffStep(t) ==
    /\ thr[t].pc = "loaded"
    /\ activeDataFileOff' = Uint32(thr[t].off + RecSize(bytes(thr[t].ent)))
    /\ IF activeDataFileOff' >= maxDataFileSize
         THEN /\ thr' = [thr EXCEPT ![t].pc = "archive"]
              /\ ret' = ret
         ELSE /\ thr' = [thr EXCEPT ![t].pc = "done"]
              /\ ret' = Ret("Put", thr[t].key, thr[t].ent.value, "nil")
    /\ UNCHANGED <<path, walVars, status, fs, activeDataFile, activeFileId, keyDir,
                   inArchived, inCompaction, compactCommand, last, cnt>>

\* db.go:212-214 CompareAndSwap(false, true): archive returns nil at once
\* when another thread is archiving
ArchiveCAS(t) ==
    /\ thr[t].pc = "archive"
    /\ inArchived' = TRUE
    /\ IF inArchived
         THEN /\ thr' = [thr EXCEPT ![t].pc = "done"]
              /\ ret' = Ret("Put", thr[t].key, thr[t].ent.value, "nil")
         ELSE /\ thr' = [thr EXCEPT ![t].pc = "closing"]
              /\ ret' = ret
    /\ UNCHANGED <<path, walVars, status, fs, activeDataFile, activeFileId,
                   activeDataFileOff, keyDir, inCompaction, compactCommand, last, cnt>>

\* db.go:216-222: Sync and Close of both handles, which are set to nil
ArchiveClose(t) ==
    /\ thr[t].pc = "closing"
    /\ activeDataFile' = NilHandle
    /\ thr' = [thr EXCEPT ![t].pc = "opening"]
    /\ UNCHANGED <<path, walVars, status, fs, activeFileId, activeDataFileOff, keyDir,
                   inArchived, inCompaction, compactCommand, last, ret, cnt>>

\* db.go:224-228: activeFileId++ and openDataFile.  When os.OpenFile fails,
\* Stat of the nil file returns ErrInvalid (db.go:155-159), openDataFile
\* returns (nil, 0, err) and archive returns the error
ArchiveOpenData(t, e) ==
    /\ thr[t].pc = "opening"
    /\ activeFileId' = Uint16(activeFileId + 1)
    /\ IF e # "nil"
         THEN /\ activeDataFile' = NilHandle
              /\ activeDataFileOff' = 0
              /\ fs' = fs
              /\ thr' = [thr EXCEPT ![t].pc = "done"]
              /\ ret' = Ret("Put", thr[t].key, thr[t].ent.value, "openDataFile failed")
         ELSE /\ \E od \in {openDataFile(World, path, activeFileId')} :
                    /\ fs' = od.W.fs
                    /\ activeDataFile' = od.W.h
                    /\ activeDataFileOff' = od.off
              /\ thr' = [thr EXCEPT ![t].pc = "hint"]
              /\ ret' = ret
    /\ UNCHANGED <<path, walVars, status, keyDir, inArchived, inCompaction,
                   compactCommand, last, cnt>>

\* db.go:229-232: openHintFile, and the return of its error
ArchiveOpenHint(t, e) ==
    /\ thr[t].pc = "hint"
    /\ IF e # "nil"
         THEN /\ fs' = fs
              /\ thr' = [thr EXCEPT ![t].pc = "done"]
              /\ ret' = Ret("Put", thr[t].key, thr[t].ent.value, "openHintFile failed")
         ELSE /\ fs' = openHintFile(World, path, activeFileId).fs
              /\ thr' = [thr EXCEPT ![t].pc = "store"]
              /\ ret' = ret
    /\ UNCHANGED <<path, walVars, status, dbVars, compactCommand, last, cnt>>

\* db.go:234-235: inArchived.Store(false) and the return of nil
ArchiveStore(t) ==
    /\ thr[t].pc = "store"
    /\ inArchived' = FALSE
    /\ thr' = [thr EXCEPT ![t].pc = "done"]
    /\ ret' = Ret("Put", thr[t].key, thr[t].ent.value, "nil")
    /\ UNCHANGED <<path, walVars, status, fs, activeDataFile, activeFileId,
                   activeDataFileOff, keyDir, inCompaction, compactCommand, last, cnt>>

\* db.go:312-318: keyDir.get, the return of ErrKeyNotFound, and the
\* comparison of the descriptor's file id with activeFileId
GetClue(t, key) ==
    /\ status = "open"
    /\ thr[t].pc = "idle"
    /\ IF ~HasKey(key)
         THEN /\ thr' = [thr EXCEPT ![t] = [Idle EXCEPT !.pc = "done", !.key = key]]
              /\ ret' = Ret("Get", key, Nil, "ErrKeyNotFound")
         ELSE /\ thr' = [thr EXCEPT ![t] =
                           [Idle EXCEPT !.pc = IF keyDir[key].fileId = activeFileId
                                                 THEN "active" ELSE "inactive",
                                        !.key = key, !.keydir = keyDir[key]]]
              /\ ret' = ret
    /\ UNCHANGED <<path, walVars, status, fs, dbVars, compactCommand, last, cnt>>

\* db.go:319-330: ReadAt through activeDataFile (ErrInvalid on a nil file)
\* or readInactiveFile, and the return
GetRead(t) ==
    /\ thr[t].pc \in {"active", "inactive"}
    /\ \E rd \in {IF thr[t].pc = "inactive"
                    THEN readInactiveFile(thr[t].keydir.valueSize, thr[t].keydir)
                  ELSE IF activeDataFile.kind = "nil"
                    THEN [err |-> "ErrInvalid", val |-> Nil]
                  ELSE ReadAt(HandleData(World), thr[t].keydir.valueOffset,
                              thr[t].keydir.valueSize)} :
          ret' = Ret("Get", thr[t].key, IF rd.err # "nil" THEN Nil ELSE rd.val, rd.err)
    /\ thr' = [thr EXCEPT ![t].pc = "done"]
    /\ UNCHANGED <<path, walVars, status, fs, dbVars, compactCommand, last, cnt>>

\* the steps of thread t inside an operation
Step(t) ==
    \/ PutWrite(t)
    \/ PutSet(t)
    \/ PutOffLoad(t)
    \/ PutOffStep(t)
    \/ ArchiveCAS(t)
    \/ ArchiveClose(t)
    \/ \E e \in OpenErrs : ArchiveOpenData(t, e)
    \/ \E e \in OpenErrs : ArchiveOpenHint(t, e)
    \/ ArchiveStore(t)
    \/ GetRead(t)

NextRotation ==
    \/ Open
    \/ \E t \in Writers, k \in Keys, v \in Values : PutBuild(t, k, v)
    \/ \E t \in Writers, k \in Keys : GetClue(t, k)
    \/ \E t \in Writers : Step(t)

\* a goroutine inside an operation is scheduled again and again: a step
\* that stays possible is taken
SpecRotation ==
    /\ Init
    /\ [][NextRotation]_vars
    /\ \A t \in Writers : WF_vars(Step(t))

\* C29: every rotation that sets inArchived clears it again, so that a
\* writer waiting in write for the flag leaves the wait, also when an open
\* of the rotation fails.
C29_RotationFinishes ==
    /\ inArchived ~> ~inArchived
    /\ \A t \in Writers : (thr[t].pc = "built") ~> (thr[t].pc # "built")

\* thread t reads through activeDataFile in this step
ActiveRead(t) == thr[t].pc = "active" /\ thr'[t].pc = "done"

\* C30: a Get that found its descriptor in the active file reads through a
\* handle that is open, and the file behind the handle is the data file
\* with the descriptor's file id.
C30_GetSafe ==
    [][\A t \in Writers :
          ActiveRead(t) =>
             /\ activeDataFile.kind = "file"
             /\ activeDataFile.name = dbDataFilename(path, thr[t].keydir.fileId)]_vars

(***************************************************************************)
(* Compaction and the active file.                                         *)
(***************************************************************************)
\* the file behind the active handle before a run of mergeFiles
ActiveName == activeDataFile.name

\* C31: a compaction run leaves the active file alone: the file behind the
\* active handle is not among the files the run reads and backs up, not
\* among the files it writes, and after the run it is still the file of
\* that name with the content it had.
C31_ActiveUntouched ==
    [][(MergeStep /\ status = "open" /\ activeDataFile.kind = "file") =>
         /\ \A i \in 1..Len(ret'.inputs) : dataFilename(path, ret'.inputs[i]) # ActiveName
         /\ \A i \in 1..Len(ret'.outputs) : dataFilename(path, ret'.outputs[i]) # ActiveName
         /\ activeDataFile' = activeDataFile
         /\ Exists(fs', ActiveName)
         /\ fs'[ActiveName] = fs[ActiveName]]_vars

\* the data file that the descriptor of k names exists and holds the last
\* value put for k at the descriptor's offsets
DescriptorReads(k) ==
    /\ Exists(fs, dbDataFilename(path, keyDir[k].fileId))
    /\ ReadAt(fs[dbDataFilename(path, keyDir[k].fileId)],
              keyDir[k].valueOffset, keyDir[k].valueSize)
         = [err |-> "nil", val |-> last[k].val]

\* C32: the file changes of a compaction run do not reach readers: for a
\* live key whose descriptor names a data file that holds the key's last
\* value, the descriptor names such a file also after mergeFiles has run
\* and before the run ends, so that a Get during the run finds the value.
C32_MergeInvisible ==
    [][(MergeStep /\ status = "open") =>
         \A k \in Keys :
            (last[k].kind = "put" /\ LiveDescriptor(k) /\ DescriptorReads(k))
               => DescriptorReads(k)']_vars

(***************************************************************************)
(* Descriptors and offsets.                                                *)
(***************************************************************************)
\* C33: every descriptor of the key directory has
\* valueOffset = entryOffset + 12 + keySize, whether a write, a scan of a
\* data file or a hint file put it there.
C33_DescriptorArithmetic ==
    \A k \in DOMAIN keyDir :
       keyDir[k].valueOffset = keyDir[k].entryOffset + kvEntry_fixedBytes + KeyLen(k)

\* the numbers of bytes that reach the file when (*os.File).Write fails:
\* none, or a part of the entry (every entry is longer than 12 bytes)
ShortWrites == {0, 5}

\* db.go:245 Put whose activeDataFile.Write returns (n, err) with err # nil
\* after n bytes (db.go:294-297): write returns the error at once
PutShortWrite(key, value, n) ==
    /\ status = "open"
    /\ ~inArchived
    /\ cnt.writes < MaxWrites
    /\ KeyLen(key) <= maxKeySize /\ value.n <= maxValueSize
    /\ activeDataFile.kind # "nil"
    /\ \E W1 \in {IF n = 0 THEN World ELSE HandleAppend(World, [junk |-> n])} :
          /\ fs' = W1.fs
          /\ activeDataFile' = W1.h
    /\ ret' = Ret("Put", key, value, "db.Put could not write to file")
    /\ cnt' = [cnt EXCEPT !.writes = @ + 1]
    /\ UNCHANGED <<path, walVars, thr, status, activeFileId, activeDataFileOff, keyDir,
                   inArchived, inCompaction, compactCommand, last>>

\* one thread that opens, writes, deletes and closes, with writes that fail
NextShortWrite ==
    \/ Open
    \/ Close
    \/ \E k \in Keys, v \in Values : Put(k, v)
    \/ \E k \in Keys : Delete(k)
    \/ \E k \in Keys, v \in Values, n \in ShortWrites : PutShortWrite(k, v, n)

SpecShortWrite == Init /\ [][NextShortWrite]_vars

\* C34: in one thread, whenever an operation has returned, the tracked
\* offset of an open store is the size of the active file, also after a
\* Put whose Write failed; and a successful write makes the file that was
\* active longer by 12 + len(key) + len(value) bytes.
C34_OffsetTracksSize ==
    /\ []((status = "open" /\ activeDataFile.kind = "file")
            => activeDataFileOff = SizeOf(fs[activeDataFile.name]))
    /\ [][(Appended /\ activeDataFile.kind = "file")
            => SizeOf(fs'[activeDataFile.name])
                 = SizeOf(fs[activeDataFile.name])
                     + kvEntry_fixedBytes + KeyLen(ret'.key) + ret'.val.n]_vars

(***************************************************************************)
(* The files a compaction writes.                                          *)
(***************************************************************************)
\* C35: the files a merge writes have ids below the active file id: the
\* first is activeFileId - 1, every further one is one less than the one
\* before, and none wraps around below 0.
C35_OutputIdsBelowActive ==
    [][(MergeStep /\ status = "open" /\ ret'.err = "nil") =>
         /\ \A i \in 1..Len(ret'.outputs) : ret'.outputs[i] < activeFileId
         /\ Len(ret'.outputs) >= 1 /\ ret'.outputs[1] = activeFileId - 1
         /\ \A i \in 2..Len(ret'.outputs) : ret'.outputs[i] = ret'.outputs[i - 1] - 1]_vars

\* record rec of the hint file of data file F describes chunk j of content
Describes(rec, F, content, j) ==
    /\ ~IsJunk(rec) /\ ~IsKv(rec)
    /\ IsKv(content[j])
    /\ rec.fileId = F
    /\ rec.key = content[j].key
    /\ rec.keySize = content[j].keySize
    /\ rec.valueSize = content[j].valueSize
    /\ rec.entryOffset = EntryOff(content, j)
    /\ rec.valueOffset = rec.entryOffset + kvEntry_fixedBytes + rec.keySize

\* the hint file of data file F of file system f holds one record for
\* every entry of F, in the order of F, and nothing else
HintExact(f, F) ==
    /\ Exists(f, dataFilename(path, F)) /\ Exists(f, hintFilename(path, F))
    /\ Len(f[hintFilename(path, F)]) = Len(f[dataFilename(path, F)])
    /\ \A j \in 1..Len(f[hintFilename(path, F)]) :
          Describes(f[hintFilename(path, F)][j], F, f[dataFilename(path, F)], j)

\* C36: after a successful compaction the hint file of every data file it
\* wrote describes that data file exactly: one record per entry, with the
\* file's id, the entry's offset, its value size and
\* valueOffset = entryOffset + 12 + keySize.
C36_HintsExact ==
    [][(MergeStep /\ status = "open" /\ ret'.err = "nil") =>
         \A n \in 1..Len(ret'.outputs) : HintExact(fs', ret'.outputs[n])]_vars

(***************************************************************************)
(* The path snapshot (part_008:61-118).  A directory is filled with data   *)
(* and hint files the way the tests of takeDBPathSnap create them, then    *)
(* the snapshot is taken; lastDataFileId is the id of the file that Open   *)
(* takes for the active file (part_008:52 lastActiveFile).                 *)
(***************************************************************************)
\* the ids of the files that are created
MaxSnapFileId == 3
SnapFileIds == 0..MaxSnapFileId

\* part_008:64 initDataFileId.  Its declaration is not in the sources; 0 is
\* the id that Open gives the first file of an empty directory (db.go:80).
\* Only the snapshot of a directory without data and hint files has it.
initDataFileId == 0

\* part_008:98 lastFileIdFromFilenames
lastFileIdFromFilenames(filenames) ==
    IF filenames = {} THEN 0
    ELSE IF Cardinality(filenames) = 1
      THEN fileIdFromFilename(CHOOSE nm \in filenames : TRUE)
    ELSE Uint16(SortDesc({fileIdFromFilename(nm) : nm \in filenames})[1])

\* part_008:61 takeDBPathSnap, the field lastDataFileId
lastDataFileId(f, p) ==
    LET snap == takeDBPathSnap(f, p)
    IN IF snap.dataFiles = {} /\ snap.hintFiles = {} THEN initDataFileId
       ELSE IF snap.hintFiles # {}
         THEN Uint16(lastFileIdFromFilenames(snap.hintFiles) + 1)
       ELSE lastFileIdFromFilenames(snap.dataFiles)

\* memMapFs.Create of an empty data file or hint file (part_007:288-297)
CreateFile(id, ext) ==
    /\ status = "closed"
    /\ ret.op = "none"
    /\ ~Exists(fs, [dir |-> path, id |-> id, ext |-> ext, fmt |-> "%010d"])
    /\ fs' = WithFile(fs, [dir |-> path, id |-> id, ext |-> ext, fmt |-> "%010d"], <<>>)
    /\ UNCHANGED <<path, walVars, thr, status, dbVars, compactCommand, last, ret, cnt>>

\* takeDBPathSnap(fs, path); the id of the active file is lastDataFileId
TakeDBPathSnap ==
    /\ status = "closed"
    /\ ret.op = "none"
    /\ activeFileId' = lastDataFileId(fs, path)
    /\ ret' = Ret("takeDBPathSnap", "", Nil, "nil")
    /\ UNCHANGED <<path, walVars, thr, status, fs, activeDataFile, activeDataFileOff,
                   keyDir, inArchived, inCompaction, compactCommand, last, cnt>>

NextSnap ==
    \/ \E id \in SnapFileIds, ext \in {dataFileExt, hintFileExt} : CreateFile(id, ext)
    \/ TakeDBPathSnap

SpecSnap == Init /\ [][NextSnap]_vars

\* C37: the active file id that the snapshot of a directory yields is at
\* least the id of every data file of the directory, also when hint files
\* exist for smaller ids only.
C37_ActiveIdIsNewest ==
    ret.op = "takeDBPathSnap" => \A dn \in DataFiles : activeFileId >= dn.id

(***************************************************************************)
(* backupFile (part_008:133-153).  A directory is built as for the         *)
(* recovery, then a data file is backed up and the restore function or the *)
(* clean function that backupFile returned is called, as in the tests      *)
(* Test_backupFile_backup, _restore and _clean.                            *)
(***************************************************************************)

\* backupFile(fs, dataFilename(path, id)); ret.inputs is the id
BackupFile(id) ==
    /\ status = "closed"
    /\ ret.op \in {"none", "restoreFn", "cleanFn"} \/ ret.err # "nil"
    /\ \E r \in {backupFile(World, dataFilename(path, id))} :
          /\ fs' = r.W.fs
          /\ ret' = [Ret("backupFile", "", Nil, r.err) EXCEPT !.inputs = <<id>>]
    /\ UNCHANGED <<path, walVars, thr, status, dbVars, compactCommand, last, cnt>>

\* the restore function returned by the backupFile that succeeded last
RestoreFile ==
    /\ ret.op = "backupFile" /\ ret.err = "nil"
    /\ fs' = restoreFn(World, dataFilename(path, ret.inputs[1])).fs
    /\ ret' = [ret EXCEPT !.op = "restoreFn"]
    /\ UNCHANGED <<path, walVars, thr, status, dbVars, compactCommand, last, cnt>>

\* the clean function returned by the backupFile that succeeded last
CleanFile ==
    /\ ret.op = "backupFile" /\ ret.err = "nil"
    /\ fs' = cleanFn(World, dataFilename(path, ret.inputs[1])).fs
    /\ ret' = [ret EXCEPT !.op = "cleanFn"]
    /\ UNCHANGED <<path, walVars, thr, status, dbVars, compactCommand, last, cnt>>

NextBackup ==
    \/ \E id \in RecoveryFileIds, e \in RecoveryEntries, h \in BOOLEAN :
           writeEntryIntoFile(id, e, h)
    \/ \E id \in RecoveryFileIds : BackupFile(id)
    \/ RestoreFile
    \/ CleanFile

SpecBackup == Init /\ [][NextBackup]_vars

\* the file that the step works on and its backup
BackedUp == dataFilename(path, ret'.inputs[1])

C39_HintsPaired ==
    ~inCompaction =>
        \A hn \in DOMAIN fs :
            hn.ext = hintFileExt => Exists(fs, [hn EXCEPT !.ext = dataFileExt])

(***************************************************************************)
(* Offsets of the log over restarts.                                       *)
(***************************************************************************)
\* C40: every successful Write on the root returned an offset greater than
\* every offset that a successful Write returned before it, over Close,
\* NewWAL and TruncateBefore.
C40_OffsetsNeverReused ==
    \A i, j \in 1..Len(walLog) :
        i < j => walLog[i].offset < walLog[j].offset

====
